---- MODULE Spec2Model ----
(***************************************************************************)
(* Model of the complaint classifier of smart_complaint_system             *)
(* (src/src/lib/ai-engine.ts), of its SLA calculator (lib/utils), of the   *)
(* submission of a complaint and the changes of its status                 *)
(* (services/complaints.service.ts), of the complaints store of the        *)
(* client (stores/complaints.store.ts) and of the live classification in   *)
(* the complaint form (pages/user/UserDashboard.tsx).                      *)
(* Texts are TLA+ strings; every string operation of the source            *)
(* (toLowerCase, replace, trim, includes, split) is computed character by  *)
(* character.  Confidences are kept in hundredths (0.3 is 30, 1 is 100).   *)
(* Instants are whole seconds.                                             *)
(*                                                                         *)
(* Each part of the program has its own specification; the variables of    *)
(* the other parts stay at their initial values in it.                     *)
(***************************************************************************)
EXTENDS Integers, Sequences, FiniteSets, TLC

VARIABLES
    \* one call of a classifier function
    text,        \* the text passed in
    pc,          \* "ready", then the name of the function that was called
    arg,         \* the category argument, where there is one
    ret,         \* the value returned
    \* the SLA calculator
    tz,          \* the time zone of the runtime
    clock,       \* the system clock: what new Date() reads
    createdAt,   \* the Date passed to calculateSLADeadline, after the call
    slaHours,    \* the slaHours passed, in half hours
    deadline,    \* the Date calculateSLADeadline returned
    slaPc,       \* "new", "stamped", "waiting" once time passed, or the last call
    slaRet,      \* what getSLAStatus returned last
    \* the complaint form and the collections behind it
    title,       \* the title typed into the form
    description, \* the description typed into the form
    cPc,         \* "ready", then the name of the operation that was called
    cArg,        \* the arguments of that call other than title and description
    cRet,        \* the value returned
    complaintDocs,   \* the complaints collection, by document id
    notifications,   \* the notifications collection, in order of creation
    \* the analysis of patterns
    complaints,  \* the complaints passed to analyzePatterns
    pPc,         \* "ready", then "analyzePatterns"
    insights,    \* the insights returned
    \* several callers of the classifier in one runtime
    dictionaries,    \* the keyword arrays of the module, as the runtime holds them
    callers,     \* for every caller: its call, how far it got, and the result
    \* the staff who change the status of a complaint
    updaters,    \* for every one: the call of updateComplaintStatus under way
    \* the complaints store of the client
    store,       \* complaints, selectedComplaint and totalCount
    \* the state of the component SubmitComplaint besides title and description
    form         \* departments, aiResult, aiLoading and the pending timer

classifierVars == <<text, pc, arg, ret>>

slaVars == <<tz, clock, createdAt, slaHours, deadline, slaPc, slaRet>>

complaintVars == <<title, description, cPc, cArg, cRet, complaintDocs, notifications>>

patternVars == <<complaints, pPc, insights>>

callerVars == <<dictionaries, callers>>

statusVars == <<updaters>>

storeVars == <<store>>

formVars == <<form>>

vars ==
    <<classifierVars, slaVars, complaintVars, patternVars, callerVars,
      statusVars, storeVars, formVars>>

\* ---------------------------------------------------------------- bounds

\* Number of raw fragments an input text is assembled from.
MaxPieces == 2

\* ------------------------------------------------- keyword dictionaries

\* Object.keys(CATEGORY_KEYWORDS): the declaration order of the categories.
Categories ==
    <<"water", "electrical", "internet", "infrastructure", "sanitation",
      "security", "maintenance", "other">>

CATEGORY_KEYWORDS ==
    [water |->
        <<"water", "pipe", "leak", "flood", "drain", "sewage", "tap", "supply",
          "plumbing", "overflow", "blockage", "contamination", "dirty water",
          "no water", "water cut", "burst pipe", "moisture", "damp">>,
     electrical |->
        <<"electricity", "electric", "power", "light", "bulb", "wiring", "socket",
          "switch", "fuse", "transformer", "outage", "blackout", "short circuit",
          "voltage", "generator", "meter", "sparks", "shock", "no power">>,
     internet |->
        <<"internet", "wifi", "network", "connection", "broadband", "router",
          "signal", "slow internet", "disconnected", "bandwidth", "cable",
          "fiber", "lan", "modem", "connectivity", "online", "offline">>,
     infrastructure |->
        <<"road", "pothole", "bridge", "building", "wall", "ceiling", "floor",
          "crack", "construction", "pavement", "sidewalk", "parking", "gate",
          "fence", "roof", "structure", "foundation", "elevator", "lift">>,
     sanitation |->
        <<"garbage", "waste", "trash", "dustbin", "cleaning", "hygiene", "toilet",
          "bathroom", "restroom", "smell", "odor", "pest", "rat", "cockroach",
          "mosquito", "dirty", "filth", "sweep", "litter">>,
     security |->
        <<"security", "theft", "robbery", "vandalism", "cctv", "camera", "guard",
          "safety", "danger", "threat", "suspicious", "break-in", "trespassing",
          "harassment", "violence", "crime", "police", "emergency">>,
     maintenance |->
        <<"maintenance", "repair", "broken", "damaged", "worn", "old", "replace",
          "fix", "service", "equipment", "machine", "appliance", "furniture",
          "door", "window", "lock", "hinge", "paint", "renovation">>,
     other |-> <<>>]

URGENT_KEYWORDS ==
    <<"urgent", "emergency", "critical", "immediately", "asap", "dangerous",
      "hazardous", "life-threatening", "fire", "flood", "explosion", "gas leak",
      "electric shock", "accident", "injury", "blood", "collapse", "fallen">>

HIGH_KEYWORDS ==
    <<"broken", "not working", "completely", "totally", "severe", "major",
      "serious", "significant", "important", "affecting many", "multiple",
      "days", "week", "unbearable", "intolerable", "health risk">>

LOW_KEYWORDS ==
    <<"minor", "small", "slight", "little", "cosmetic", "aesthetic", "suggestion",
      "improvement", "enhancement", "when possible", "not urgent", "low priority">>

\* ------------------------------------------------------ string primitives

\* The elements of a list.
Range(seq) == {seq[i] : i \in 1..Len(seq)}

\* The i-th character of a string, as a one-character string.
charAt(s, i) == SubSeq(s, i, i)

UpperCaseLetters == "ABCDEFGHIJKLMNOPQRSTUVWXYZ"
LowerCaseLetters == "abcdefghijklmnopqrstuvwxyz"
Digits == "0123456789"

CharsOf(s) == {charAt(s, i) : i \in 1..Len(s)}

UpperSet == CharsOf(UpperCaseLetters)
LowerSet == CharsOf(LowerCaseLetters)
DigitSet == CharsOf(Digits)

\* The characters the regular expression class \s matches.
WhiteSpace == {" ", "\t", "\n"}

\* String.prototype.toLowerCase on one character.
lowerChar(c) ==
    IF c \in UpperSet
    THEN charAt(LowerCaseLetters,
                CHOOSE i \in 1..Len(UpperCaseLetters) : charAt(UpperCaseLetters, i) = c)
    ELSE c

\* toLowerCase maps every character of s; the halves are mapped separately
\* and joined, which visits each character once, left to right.
RECURSIVE toLowerCase(_)
toLowerCase(s) ==
    IF s = "" THEN ""
    ELSE IF Len(s) = 1 THEN lowerChar(s)
    ELSE LET h == Len(s) \div 2
         IN  toLowerCase(SubSeq(s, 1, h)) \o toLowerCase(SubSeq(s, h + 1, Len(s)))

\* s.replace(/[^a-z0-9\s-]/g, ' '): every character outside the class becomes
\* one space; the others are kept.
replaceChar(c) ==
    IF c \in LowerSet \/ c \in DigitSet \/ c \in WhiteSpace \/ c = "-" THEN c ELSE " "

RECURSIVE replaceDisallowed(_)
replaceDisallowed(s) ==
    IF s = "" THEN ""
    ELSE IF Len(s) = 1 THEN replaceChar(s)
    ELSE LET h == Len(s) \div 2
         IN  replaceDisallowed(SubSeq(s, 1, h)) \o replaceDisallowed(SubSeq(s, h + 1, Len(s)))

\* String.prototype.trim: white space is removed from both ends only.
RECURSIVE trimStart(_)
trimStart(s) ==
    IF s # "" /\ charAt(s, 1) \in WhiteSpace THEN trimStart(SubSeq(s, 2, Len(s))) ELSE s

RECURSIVE trimEnd(_)
trimEnd(s) ==
    IF s # "" /\ charAt(s, Len(s)) \in WhiteSpace
    THEN trimEnd(SubSeq(s, 1, Len(s) - 1))
    ELSE s

trim(s) == trimEnd(trimStart(s))

\* String.prototype.includes: kw occurs in s as a contiguous substring.
includes(s, kw) ==
    \E i \in 1..(Len(s) - Len(kw) + 1) : SubSeq(s, i, i + Len(kw) - 1) = kw

\* kw.split(' ').length: one more than the number of spaces in kw.
splitLength(kw) == 1 + Cardinality({i \in 1..Len(kw) : charAt(kw, i) = " "})

\* ------------------------------------------------------ text preprocessing

preprocessText(t) == trim(replaceDisallowed(toLowerCase(t)))

\* -------------------------------------------------------- keyword extraction

\* A variant without the !found.includes(kw) test.
pushIfFound_noDedup(processed, kw, found) ==
    IF includes(processed, kw) THEN Append(found, kw) ELSE found

\* One iteration of either loop of extractKeywords:
\* if (processed.includes(kw) && !found.includes(kw)) found.push(kw).
pushIfFound(processed, kw, found) ==
    IF includes(processed, kw) /\ kw \notin Range(found)
    THEN Append(found, kw)
    ELSE found

\* The iterations for kws[lo..hi], in index order: those of the lower half
\* run first and hand their `found` to those of the upper half.  (push only
\* appends, so the length comparison always holds; it makes the evaluation
\* finish the lower half before the upper half starts.)
RECURSIVE pushMatches(_, _, _, _, _)
pushMatches(processed, kws, lo, hi, found) ==
    IF lo > hi THEN found
    ELSE IF lo = hi THEN pushIfFound(processed, kws[lo], found)
    ELSE LET mid == (lo + hi) \div 2
             lower == pushMatches(processed, kws, lo, mid, found)
         IN  IF Len(lower) >= Len(found)
             THEN pushMatches(processed, kws, mid + 1, hi, lower)
             ELSE lower

\* The outer loop over Object.entries(CATEGORY_KEYWORDS), from category i on.
RECURSIVE pushCategories(_, _, _)
pushCategories(processed, i, found) ==
    IF i > Len(Categories) THEN found
    ELSE LET keywords == CATEGORY_KEYWORDS[Categories[i]]
             after == pushMatches(processed, keywords, 1, Len(keywords), found)
         IN  IF Len(after) >= Len(found)
             THEN pushCategories(processed, i + 1, after)
             ELSE after

\* Array.prototype.slice(0, n).
slice0(seq, n) == SubSeq(seq, 1, IF Len(seq) < n THEN Len(seq) ELSE n)

\* A variant that scans the priority lists before the category dictionaries.
extractKeywords_priorityFirst(t) ==
    LET processed == preprocessText(t)
        priorityKeywords == URGENT_KEYWORDS \o HIGH_KEYWORDS
        fromPriority == pushMatches(processed, priorityKeywords, 1,
                                    Len(priorityKeywords), <<>>)
    IN  slice0(pushCategories(processed, 1, fromPriority), 10)

\* The list `found` of extractKeywords when its two scans are over.
foundKeywords(t) ==
    LET processed == preprocessText(t)
        fromCategories == pushCategories(processed, 1, <<>>)
        priorityKeywords == URGENT_KEYWORDS \o HIGH_KEYWORDS
    IN  pushMatches(processed, priorityKeywords, 1, Len(priorityKeywords),
                    fromCategories)

extractKeywords(t) == slice0(foundKeywords(t), 10)

\* ---------------------------------------------------- category classification

\* A variant that takes only keywords of three or more words for phrases.
points_threeWords(kw) == IF splitLength(kw) > 2 THEN 2 ELSE 1

\* kw.split(' ').length > 1 ? 2 : 1
points(kw) == IF splitLength(kw) > 1 THEN 2 ELSE 1

\* The loop of scoreCategory over keywords[i..]: score += points for every
\* keyword that processed includes.
RECURSIVE scoreFrom(_, _, _)
scoreFrom(processed, keywords, i) ==
    IF i > Len(keywords) THEN 0
    ELSE (IF includes(processed, keywords[i]) THEN points(keywords[i]) ELSE 0)
         + scoreFrom(processed, keywords, i + 1)

\* A variant that scores the text without lowering its case.
scoreCategory_caseKept(t, category) ==
    scoreFrom(trim(replaceDisallowed(t)), CATEGORY_KEYWORDS[category], 1)

scoreCategory(t, category) ==
    scoreFrom(preprocessText(t), CATEGORY_KEYWORDS[category], 1)

\* The first loop of classifyCategory: the entries of `scores` in insertion
\* order, one <<category, score>> pair per category other than "other".
RECURSIVE scoreEntries(_, _)
scoreEntries(t, i) ==
    IF i > Len(Categories) THEN <<>>
    ELSE (IF Categories[i] = "other" THEN <<>>
          ELSE << <<Categories[i], scoreCategory(t, Categories[i])>> >>)
         \o scoreEntries(t, i + 1)

RECURSIVE sumScores(_)
sumScores(entries) ==
    IF entries = <<>> THEN 0 ELSE Head(entries)[2] + sumScores(Tail(entries))

\* Array.prototype.sort with the comparator (a, b) => b - a is a stable sort
\* by descending score: an entry is placed behind every entry that does not
\* compare after it.
\* A variant that is not stable: an entry goes in front of its equals.
RECURSIVE insertDesc_unstable(_, _)
insertDesc_unstable(e, sorted) ==
    IF sorted = <<>> THEN <<e>>
    ELSE IF Head(sorted)[2] > e[2]
         THEN <<Head(sorted)>> \o insertDesc_unstable(e, Tail(sorted))
         ELSE <<e>> \o sorted

RECURSIVE insertDesc(_, _)
insertDesc(e, sorted) ==
    IF sorted = <<>> THEN <<e>>
    ELSE IF Head(sorted)[2] >= e[2]
         THEN <<Head(sorted)>> \o insertDesc(e, Tail(sorted))
         ELSE <<e>> \o sorted

RECURSIVE sortDesc(_, _)
sortDesc(entries, n) ==
    IF n = 0 THEN <<>> ELSE insertDesc(entries[n], sortDesc(entries, n - 1))

\* Score pairs <<topScore, totalScore>> at which the exact value of
\* confidence * 100 ends in .5 but the double computed by line 145 lies just
\* below it (totalScore * 0.8 is rounded upwards), so Math.round goes down.
\* Listed for every pair the dictionaries can produce.
HalfRoundsDown ==
    {<<3, 6>>, <<6, 12>>, <<7, 14>>, <<12, 24>>, <<14, 28>>, <<17, 34>>}

\* A variant without the Math.min(..., 1) cap.
confidenceOf_noMin(topScore, totalScore) ==
    LET den5 == IF 4 * totalScore > 5 THEN 4 * totalScore ELSE 5
    IN  (1000 * topScore + den5) \div (2 * den5)

\* A variant that scales the total by 0.5 instead of 0.8.
confidenceOf_half(topScore, totalScore) ==
    LET den2 == IF totalScore > 2 THEN totalScore ELSE 2
    IN  IF 2 * topScore >= den2 THEN 100
        ELSE (400 * topScore + den2) \div (2 * den2)

\* Math.min(topScore / Math.max(totalScore * 0.8, 1), 1), then
\* Math.round(confidence * 100), in hundredths.  den5 is five times
\* Math.max(totalScore * 0.8, 1).
confidenceOf(topScore, totalScore) ==
    LET den5 == IF 4 * totalScore > 5 THEN 4 * totalScore ELSE 5
    IN  IF 5 * topScore >= den5 THEN 100
        ELSE IF <<topScore, totalScore>> \in HalfRoundsDown
             THEN (500 * topScore) \div den5
             ELSE (1000 * topScore + den5) \div (2 * den5)

\* A variant without the early return for a total of 0.
classifyCategory_noZeroCheck(t) ==
    LET scores == scoreEntries(t, 1)
        totalScore == sumScores(scores)
        sorted == sortDesc(scores, Len(scores))
    IN  [category |-> sorted[1][1],
         confidence |-> confidenceOf(sorted[1][2], totalScore)]

classifyCategory(t) ==
    LET scores == scoreEntries(t, 1)
        totalScore == sumScores(scores)
        sorted == sortDesc(scores, Len(scores))
    IN  IF totalScore = 0
        THEN [category |-> "other", confidence |-> 30]
        ELSE [category |-> sorted[1][1],
              confidence |-> confidenceOf(sorted[1][2], totalScore)]

\* ----------------------------------------------------- priority determination

categoryPriorities ==
    [electrical |-> "high", water |-> "high", security |-> "high",
     infrastructure |-> "normal", internet |-> "normal", sanitation |-> "normal",
     maintenance |-> "low"]

\* for (const kw of kws) if (processed.includes(kw)) return ...
RECURSIVE anyIncluded(_, _, _)
anyIncluded(processed, kws, i) ==
    IF i > Len(kws) THEN FALSE
    ELSE IF includes(processed, kws[i]) THEN TRUE
    ELSE anyIncluded(processed, kws, i + 1)

\* The value of a property that is absent.
Undefined == "undefined"

\* A variant that tests the low keywords first.
determinePriority_lowFirst(t, category) ==
    LET processed == preprocessText(t)
    IN  IF anyIncluded(processed, LOW_KEYWORDS, 1) THEN "low"
        ELSE IF anyIncluded(processed, URGENT_KEYWORDS, 1) THEN "urgent"
        ELSE IF anyIncluded(processed, HIGH_KEYWORDS, 1) THEN "high"
        ELSE IF category \in DOMAIN categoryPriorities
             THEN categoryPriorities[category]
             ELSE "normal"

\* A variant that lets the category default win over a low keyword.
determinePriority_defaultBeforeLow(t, category) ==
    LET processed == preprocessText(t)
    IN  IF anyIncluded(processed, URGENT_KEYWORDS, 1) THEN "urgent"
        ELSE IF anyIncluded(processed, HIGH_KEYWORDS, 1) THEN "high"
        ELSE IF category \in DOMAIN categoryPriorities
             THEN categoryPriorities[category]
        ELSE IF anyIncluded(processed, LOW_KEYWORDS, 1) THEN "low"
        ELSE "normal"

\* A variant without the fallback for a category that has no default.
determinePriority_noFallback(t, category) ==
    LET processed == preprocessText(t)
    IN  IF anyIncluded(processed, URGENT_KEYWORDS, 1) THEN "urgent"
        ELSE IF anyIncluded(processed, HIGH_KEYWORDS, 1) THEN "high"
        ELSE IF anyIncluded(processed, LOW_KEYWORDS, 1) THEN "low"
        ELSE IF category \in DOMAIN categoryPriorities
             THEN categoryPriorities[category]
             ELSE Undefined

determinePriority(t, category) ==
    LET processed == preprocessText(t)
    IN  IF anyIncluded(processed, URGENT_KEYWORDS, 1) THEN "urgent"
        ELSE IF anyIncluded(processed, HIGH_KEYWORDS, 1) THEN "high"
        ELSE IF anyIncluded(processed, LOW_KEYWORDS, 1) THEN "low"
        ELSE IF category \in DOMAIN categoryPriorities
             THEN categoryPriorities[category]
             ELSE "normal"

\* ------------------------------------------------------------- sentiment

NEGATIVE_WORDS ==
    <<"terrible", "horrible", "awful", "disgusting", "unacceptable", "worst",
      "pathetic", "useless", "incompetent", "negligent", "frustrated", "angry">>

POSITIVE_WORDS ==
    <<"good", "great", "excellent", "satisfied", "happy", "resolved", "fixed",
      "improved", "better", "appreciate", "thank">>

isSpace(s, i) == charAt(s, i) \in WhiteSpace

\* s.split(/\s+/).filter(Boolean): the maximal runs of characters other than
\* white space, in order.
splitWords(s) ==
    LET starts == {i \in 1..Len(s) : ~isSpace(s, i) /\ (i = 1 \/ isSpace(s, i - 1))}
        start(k) == CHOOSE i \in starts : Cardinality({j \in starts : j < i}) = k - 1
        end(i) == CHOOSE j \in i..Len(s) :
                      /\ \A m \in i..j : ~isSpace(s, m)
                      /\ (j = Len(s) \/ isSpace(s, j + 1))
    IN  [k \in 1..Cardinality(starts) |-> SubSeq(s, start(k), end(start(k)))]

tokenize(t) == splitWords(preprocessText(t))

\* The loop of analyzeSentiment over tokens[i..]: the score it adds.
RECURSIVE sentimentFrom(_, _)
sentimentFrom(tokens, i) ==
    IF i > Len(tokens) THEN 0
    ELSE (IF tokens[i] \in Range(NEGATIVE_WORDS) THEN -1 ELSE 0)
         + (IF tokens[i] \in Range(POSITIVE_WORDS) THEN 1 ELSE 0)
         + sentimentFrom(tokens, i + 1)

\* for comparison: a score of -1 is "negative" already
analyzeSentiment_negativeBelowZero(t) ==
    LET processed == preprocessText(t)
        tokens == tokenize(processed)
        score == sentimentFrom(tokens, 1)
    IN  IF score < 0 THEN "negative"
        ELSE IF score > 0 THEN "positive"
        ELSE "neutral"

analyzeSentiment(t) ==
    LET processed == preprocessText(t)
        tokens == tokenize(processed)
        score == sentimentFrom(tokens, 1)
    IN  IF score < -1 THEN "negative"
        ELSE IF score > 0 THEN "positive"
        ELSE "neutral"

\* ------------------------------------------------------------- the inputs

\* Raw fragments of complaint text: keyword runs, mixed case, punctuation,
\* hyphens, digits, repeated and leading white space, keywords inside longer
\* words, words of sentiment and text without any keyword.
Pieces ==
    {"burst pipe leak flood drain tap sewage ",
     "Dirty Water supply ",
     "Broken door lock ",
     "Break-In theft, CCTV#2 ",
     "NOT urgent ",
     "URGENT! ",
     "no, water ",
     "no water ",
     "watery ",
     "wifi ",
     "slight, awful USELESS ",
     "\tThank you?! "}

RECURSIVE TextsOf(_)
TextsOf(n) ==
    IF n = 0 THEN {""}
    ELSE LET shorter == TextsOf(n - 1)
         IN  shorter \cup {s \o p : s \in shorter, p \in Pieces}

Texts == TextsOf(MaxPieces)

\* The values a caller can pass as the category argument: the declared
\* categories and a tag outside the declared set.
CategoryArgs == Range(Categories) \cup {"unlisted"}

\* ------------------------------------------------------------ the machine

\* The SLA calculator is not in use.
SlaOff ==
    /\ tz = "fixed"
    /\ clock = 0
    /\ createdAt = 0
    /\ slaHours = 0
    /\ deadline = 0
    /\ slaPc = "off"
    /\ slaRet = "none"

\* No classifier function is being called on `text`.
ClassifierOff ==
    /\ text = ""
    /\ pc = "off"
    /\ arg = "none"
    /\ ret = "none"

\* No complaint is being written.
ComplaintOff ==
    /\ title = ""
    /\ description = ""
    /\ cPc = "off"
    /\ cArg = "none"
    /\ cRet = "none"
    /\ complaintDocs = <<>>
    /\ notifications = <<>>

\* No collection of complaints is being analysed.
PatternsOff ==
    /\ complaints = <<>>
    /\ pPc = "off"
    /\ insights = <<>>

\* No caller is modelled apart.
CallersOff ==
    /\ dictionaries = "declared"
    /\ callers = <<>>

\* No status of a complaint is being changed.
StatusOff == updaters = <<>>

\* The complaints store is not in use.
StoreOff == store = "off"

\* The component SubmitComplaint is not mounted.
FormOff == form = "off"

\* What the calls of the classifier functions leave alone, what the SLA
\* functions leave alone, and what the calls from the complaint form do.
notClassifier ==
    <<slaVars, complaintVars, patternVars, callerVars, statusVars, storeVars, formVars>>

notSla ==
    <<classifierVars, complaintVars, patternVars, callerVars, statusVars, storeVars,
      formVars>>

notComplaint ==
    <<classifierVars, slaVars, patternVars, callerVars, statusVars, storeVars, formVars>>

Init ==
    /\ text \in Texts
    /\ pc = "ready"
    /\ arg = "none"
    /\ ret = "none"
    /\ SlaOff
    /\ ComplaintOff
    /\ PatternsOff
    /\ StatusOff
    /\ StoreOff
    /\ FormOff
    /\ CallersOff

CallPreprocessText ==
    /\ pc = "ready"
    /\ pc' = "preprocessText"
    /\ ret' = preprocessText(text)
    /\ UNCHANGED <<text, arg>>
    /\ UNCHANGED notClassifier

CallExtractKeywords ==
    /\ pc = "ready"
    /\ pc' = "extractKeywords"
    /\ ret' = extractKeywords(text)
    /\ UNCHANGED <<text, arg>>
    /\ UNCHANGED notClassifier

CallScoreCategory ==
    /\ pc = "ready"
    /\ \E category \in Range(Categories) :
          /\ arg' = category
          /\ ret' = scoreCategory(text, category)
    /\ pc' = "scoreCategory"
    /\ UNCHANGED text
    /\ UNCHANGED notClassifier

CallClassifyCategory ==
    /\ pc = "ready"
    /\ pc' = "classifyCategory"
    /\ ret' = classifyCategory(text)
    /\ UNCHANGED <<text, arg>>
    /\ UNCHANGED notClassifier

CallAnalyzeSentiment ==
    /\ pc = "ready"
    /\ pc' = "analyzeSentiment"
    /\ ret' = analyzeSentiment(text)
    /\ UNCHANGED <<text, arg>>
    /\ UNCHANGED notClassifier

CallDeterminePriority ==
    /\ pc = "ready"
    /\ \E category \in CategoryArgs :
          /\ arg' = category
          /\ ret' = determinePriority(text, category)
    /\ pc' = "determinePriority"
    /\ UNCHANGED text
    /\ UNCHANGED notClassifier

Next ==
    \/ CallPreprocessText
    \/ CallExtractKeywords
    \/ CallScoreCategory
    \/ CallClassifyCategory
    \/ CallDeterminePriority
    \/ CallAnalyzeSentiment

Spec == Init /\ [][Next]_vars

\* ------------------------------------------- reference notions of the claims
\* In all of them p is a preprocessed text.

\* The preprocessed form of the current input.
Processed == preprocessText(text)

NonOther == Range(Categories) \ {"other"}

AllCategoryKeywords == UNION {Range(CATEGORY_KEYWORDS[c]) : c \in NonOther}

\* A keyword with an internal space.
IsPhrase(kw) == \E i \in 1..Len(kw) : charAt(kw, i) = " "

\* The keywords of category c that occur in p, and their points counted as
\* sets: one per keyword, one more per phrase.
OccurringOf(p, c) == {kw \in Range(CATEGORY_KEYWORDS[c]) : includes(p, kw)}

RefScore(p, c) ==
    LET occurring == OccurringOf(p, c)
    IN  Cardinality(occurring) + Cardinality({kw \in occurring : IsPhrase(kw)})

\* The reference scores of the seven categories, by category.
RefScores(p) == [c \in NonOther |-> RefScore(p, c)]

RefTotal(sc) ==
    sc["water"] + sc["electrical"] + sc["internet"] + sc["infrastructure"]
    + sc["sanitation"] + sc["security"] + sc["maintenance"]

RefTop(sc) == CHOOSE m \in {sc[c] : c \in NonOther} : \A c \in NonOther : sc[c] <= m

\* The position of a category in the declaration order.
DeclIndex(c) == CHOOSE i \in 1..Len(Categories) : Categories[i] = c

\* The scan order of extractKeywords written out, the positions that hold the
\* first copy of their keyword, and those of them whose keyword occurs in p.
ScanOrder ==
    CATEGORY_KEYWORDS.water \o CATEGORY_KEYWORDS.electrical \o CATEGORY_KEYWORDS.internet
    \o CATEGORY_KEYWORDS.infrastructure \o CATEGORY_KEYWORDS.sanitation
    \o CATEGORY_KEYWORDS.security \o CATEGORY_KEYWORDS.maintenance
    \o URGENT_KEYWORDS \o HIGH_KEYWORDS

FirstCopies ==
    {j \in 1..Len(ScanOrder) : \A k \in 1..(j - 1) : ScanOrder[k] # ScanOrder[j]}

MatchedPositions(p) == {j \in FirstCopies : includes(p, ScanOrder[j])}

AnyOccurs(p, kws) == \E kw \in Range(kws) : includes(p, kw)

\* ------------------------------------------------------------------ claims

\* C1: classifyCategory returns category "other" with confidence 0.3 exactly
\* when the seven category scores sum to 0, which is exactly when no category
\* keyword occurs in the preprocessed text; when some category keyword occurs
\* the returned category is not "other".
C1_OtherIffNoKeyword ==
    pc = "classifyCategory" =>
        LET p == Processed
            none == \A kw \in AllCategoryKeywords : ~includes(p, kw)
            total == RefTotal(RefScores(p))
        IN  /\ (ret.category = "other" /\ ret.confidence = 30) <=> (total = 0)
            /\ (total = 0) <=> none
            /\ ~none => ret.category # "other"

\* A text that is not empty after preprocessing and holds no category keyword
\* was classified.
C1_Witness ==
    /\ pc = "classifyCategory"
    /\ Processed # ""
    /\ \A kw \in AllCategoryKeywords : ~includes(Processed, kw)
    /\ ret = [category |-> "other", confidence |-> 30]

\* C2: whenever the case-folded text contains "urgent", determinePriority
\* returns "urgent", for every category argument and whatever high or low
\* keywords the text also holds.
C2_UrgentWins ==
    (pc = "determinePriority" /\ includes(toLowerCase(text), "urgent")) => ret = "urgent"

\* The text holds the low keyword "not urgent" and the high keyword "broken",
\* and the category argument has the default "low".
C2_Witness ==
    /\ pc = "determinePriority"
    /\ includes(Processed, "not urgent")
    /\ includes(Processed, "broken")
    /\ arg = "maintenance"
    /\ ret = "urgent"

\* What determinePriority answers for every text and category explored.
PriorityOf ==
    [t \in Texts |-> [c \in CategoryArgs |-> determinePriority(t, c)]]

\* C3: determinePriority returns "urgent" if an urgent keyword occurs, else
\* "high" if a high keyword occurs, else "low" if a low keyword occurs, else
\* the default of the category (electrical, water, security: "high";
\* infrastructure, internet, sanitation: "normal"; maintenance: "low"; other
\* or unmapped: "normal"); when a priority keyword occurs the result is the
\* same for every category argument.
C3_PriorityOrder ==
    pc = "determinePriority" =>
        LET p == Processed
            urgent == AnyOccurs(p, URGENT_KEYWORDS)
            high == AnyOccurs(p, HIGH_KEYWORDS)
            low == AnyOccurs(p, LOW_KEYWORDS)
        IN  /\ ret = (IF urgent THEN "urgent"
                      ELSE IF high THEN "high"
                      ELSE IF low THEN "low"
                      ELSE IF arg \in {"electrical", "water", "security"} THEN "high"
                      ELSE IF arg = "maintenance" THEN "low"
                      ELSE "normal")
            /\ (urgent \/ high \/ low)
                  => \A c \in CategoryArgs : PriorityOf[text][c] = ret

\* Only a low keyword occurs and the category argument has the default "high".
C3_Witness ==
    /\ pc = "determinePriority"
    /\ ~AnyOccurs(Processed, URGENT_KEYWORDS)
    /\ ~AnyOccurs(Processed, HIGH_KEYWORDS)
    /\ AnyOccurs(Processed, LOW_KEYWORDS)
    /\ arg = "water"
    /\ ret = "low"

\* C4: the list extractKeywords returns has at most 10 entries and holds no
\* string twice.
C4_AtMostTenNoDuplicate ==
    pc = "extractKeywords" =>
        /\ Len(ret) <= 10
        /\ \A i, j \in 1..Len(ret) : i # j => ret[i] # ret[j]

\* More than 10 distinct keywords occur, among them "flood", which the water
\* dictionary and the urgent list both declare, and "flood" was returned.
C4_Witness ==
    /\ pc = "extractKeywords"
    /\ Len(ret) = 10
    /\ "flood" \in Range(ret)
    /\ Cardinality(MatchedPositions(Processed)) > 10

\* C5: extractKeywords returns the first 10 (or all, when fewer) distinct
\* occurring keywords in scan order (category dictionaries in declaration
\* order, then the urgent list, then the high list): its i-th entry is the
\* occurring keyword with exactly i - 1 occurring keywords before it.  No low
\* keyword is returned.
C5_FirstTenInScanOrder ==
    pc = "extractKeywords" =>
        LET matched == MatchedPositions(Processed)
        IN  /\ Len(ret) = (IF Cardinality(matched) < 10 THEN Cardinality(matched) ELSE 10)
            /\ \A i \in 1..Len(ret) :
                  \E j \in matched :
                     /\ ret[i] = ScanOrder[j]
                     /\ Cardinality({k \in matched : k < j}) = i - 1
            /\ \A i \in 1..Len(ret) : ret[i] \notin Range(LOW_KEYWORDS)

\* The cut at 10 drops an occurring sanitation keyword: the tenth entry is the
\* last water keyword of the scan.
C5_Witness ==
    /\ pc = "extractKeywords"
    /\ Len(ret) = 10
    /\ ret[10] = "burst pipe"
    /\ includes(Processed, "dirty")
    /\ "dirty" \notin Range(ret)

\* C6: when the total score is above 0 the returned confidence is
\* min(topScore / max(total * 0.8, 1), 1) rounded to 2 decimal places, that
\* is, the hundredth nearest to that value (no further from it than 0.005);
\* the confidence always lies in [0, 1].
C6_ConfidenceFormula ==
    pc = "classifyCategory" =>
        LET sc == RefScores(Processed)
            total == RefTotal(sc)
            top == RefTop(sc)
            den5 == IF 4 * total > 5 THEN 4 * total ELSE 5
            diff == ret.confidence * den5 - 500 * top
        IN  /\ ret.confidence >= 0
            /\ ret.confidence <= 100
            /\ total > 0 =>
                  IF 5 * top >= den5 THEN ret.confidence = 100
                  ELSE 2 * diff <= den5 /\ -2 * diff <= den5

\* Two categories score 3 each: the exact value is 0.625 and 0.62 is returned.
C6_Witness ==
    /\ pc = "classifyCategory"
    /\ RefTotal(RefScores(Processed)) = 6
    /\ RefTop(RefScores(Processed)) = 3
    /\ ret.confidence = 62

\* C7 as stated: a confidence of 1 is returned only when the top score is more
\* than 80% of the total.
C7_OneOnlyAboveEightyPercent ==
    (pc = "classifyCategory" /\ ret.category # "other" /\ ret.confidence = 100) =>
        LET sc == RefScores(Processed)
        IN  5 * RefTop(sc) > 4 * RefTotal(sc)

\* C7 amended: a confidence of 1 is returned only when the top score is at
\* least 80% of the total; below 80% the confidence is below 1.
C7_OneOnlyFromEightyPercent ==
    (pc = "classifyCategory" /\ ret.category # "other") =>
        LET sc == RefScores(Processed)
        IN  /\ ret.confidence = 100 => 5 * RefTop(sc) >= 4 * RefTotal(sc)
            /\ 5 * RefTop(sc) < 4 * RefTotal(sc) => ret.confidence < 100

\* The top score is 4 of a total of 5, exactly 80%, and the confidence is 1.
C7_Witness ==
    /\ pc = "classifyCategory"
    /\ RefTop(RefScores(Processed)) = 4
    /\ RefTotal(RefScores(Processed)) = 5
    /\ ret.confidence = 100

\* C8: when the total score is above 0 the returned category has the maximum
\* score, and every category declared before it has a smaller score.
C8_MaxScoreFirstDeclared ==
    pc = "classifyCategory" =>
        LET sc == RefScores(Processed)
        IN  RefTotal(sc) > 0 =>
               /\ ret.category \in NonOther
               /\ sc[ret.category] = RefTop(sc)
               /\ \A c \in NonOther :
                     DeclIndex(c) < DeclIndex(ret.category) => sc[c] < RefTop(sc)

\* water and internet tie for the maximum in a text that names the internet
\* keyword first, and water is returned.
C8_Witness ==
    /\ pc = "classifyCategory"
    /\ Len(text) >= 4
    /\ SubSeq(text, 1, 4) = "wifi"
    /\ RefScores(Processed)["water"] = RefTop(RefScores(Processed))
    /\ RefScores(Processed)["internet"] = RefTop(RefScores(Processed))
    /\ ret.category = "water"

\* C9: the score of a category is 2 for each of its keywords that holds a
\* space and occurs in the preprocessed text, plus 1 for each that holds no
\* space and occurs; each keyword counts once, and occurrence is substring
\* containment.
C9_ScoreIsPointsOfOccurring ==
    pc = "scoreCategory" => ret = RefScore(Processed, arg)

\* "water" occurs twice, once inside "watery" and once inside the phrase
\* "no water": it counts 1, the phrase counts 2.
C9_Witness ==
    /\ pc = "scoreCategory"
    /\ arg = "water"
    /\ Processed = "no water watery"
    /\ ret = 3

\* The characters of a preprocessed text that the claim allows.
AllowedChars == LowerSet \cup DigitSet \cup WhiteSpace \cup {"-"}

\* C10: the preprocessed text is lowercase, holds only characters of
\* [a-z0-9], white space and hyphen, has no white space at either end, and no
\* two adjacent white space characters.
C10_PreprocessedCollapsed ==
    pc = "preprocessText" =>
        /\ \A i \in 1..Len(ret) : charAt(ret, i) \in AllowedChars
        /\ ret # "" => charAt(ret, 1) \notin WhiteSpace /\ charAt(ret, Len(ret)) \notin WhiteSpace
        /\ \A i \in 1..(Len(ret) - 1) :
              ~(charAt(ret, i) \in WhiteSpace /\ charAt(ret, i + 1) \in WhiteSpace)


\* The sentiment of a text that is preprocessed once before it is split.
SentimentOnce(t) ==
    LET score == sentimentFrom(splitWords(preprocessText(t)), 1)
    IN  IF score < -1 THEN "negative"
        ELSE IF score > 0 THEN "positive"
        ELSE "neutral"

\* The points of the keywords of category c that extractKeywords found.
FoundScore(found, c) ==
    LET occurring == Range(CATEGORY_KEYWORDS[c]) \cap found
    IN  Cardinality(occurring) + Cardinality({kw \in occurring : IsPhrase(kw)})

\* What extractKeywords finds, before the truncation, in every text explored.
FoundIn == [t \in Texts |-> Range(foundKeywords(t))]

\* C11: every text-scanning operation judges the presence of a keyword on
\* the same preprocessed text.  The score scoreCategory gives a category
\* is the points of its keywords that extractKeywords found (before the
\* truncation to ten); determinePriority answers "urgent" exactly when
\* extractKeywords found an urgent keyword, and "high" when it found a
\* high keyword and no urgent one (and only then, unless "high" is the
\* default of the category).  Preprocessing is idempotent,
\* and analyzeSentiment, which preprocesses twice, answers as if it had
\* preprocessed once.
C11_ConsistentMatching ==
    /\ (pc = "scoreCategory" /\ arg # "other") =>
           ret = FoundScore(FoundIn[text], arg)
    /\ (pc = "determinePriority") =>
           LET found == FoundIn[text]
               urgent == Range(URGENT_KEYWORDS) \cap found # {}
               high == Range(HIGH_KEYWORDS) \cap found # {}
               default == IF arg \in DOMAIN categoryPriorities
                          THEN categoryPriorities[arg]
                          ELSE "normal"
           IN  /\ (ret = "urgent") <=> urgent
               /\ (high /\ ~urgent) => (ret = "high")
               /\ (ret = "high" /\ default # "high") => (high /\ ~urgent)
    /\ (pc = "preprocessText") => preprocessText(ret) = ret
    /\ (pc = "analyzeSentiment") => ret = SentimentOnce(text)

\* The maintenance category is scored on a text that spells "Broken", a
\* keyword of the maintenance dictionary and of the high list, with a
\* capital letter, and that holds disallowed characters as well.
C11_Witness ==
    /\ pc = "scoreCategory"
    /\ arg = "maintenance"
    /\ Len(text) >= 6
    /\ SubSeq(text, 1, 6) = "Broken"
    /\ "broken" \in FoundIn[text] \cap Range(HIGH_KEYWORDS)
    /\ \E i \in 1..Len(text) : charAt(text, i) \in {"!", ",", "#"}
    /\ ret >= 3

(***************************************************************************)
(* The SLA calculator (lib/utils: calculateSLADeadline, isSLABreached,     *)
(* getSLAStatus).                                                          *)
(*                                                                         *)
(* A Date is its time value, in seconds since the epoch.  getHours and     *)
(* setHours work on the local time of the runtime's zone, as ECMAScript    *)
(* defines them: LocalTime(t) = t + offset(t), and a local time is turned  *)
(* back into an instant with the offset in force before the transition     *)
(* when it exists twice or not at all.                                     *)
(***************************************************************************)
Hour == 3600

Day == 24 * Hour

\* The zones a runtime may be in over the window: one whose offset does
\* not change (UTC+05:30), one that moves its clocks forward by an hour at
\* Transition, one that moves them back by an hour at Transition.
Zones == {"fixed", "springForward", "fallBack"}

Transition == 6 * Hour

OffsetBefore(zone) ==
    CASE zone = "fixed"         -> 19800
      [] zone = "springForward" -> 1 * Hour
      [] zone = "fallBack"      -> 2 * Hour

OffsetAfter(zone) ==
    CASE zone = "fixed"         -> 19800
      [] zone = "springForward" -> 2 * Hour
      [] zone = "fallBack"      -> 1 * Hour

\* The offset of local time at instant t.
LocalTZA(t) == IF t < Transition THEN OffsetBefore(tz) ELSE OffsetAfter(tz)

LocalTime(t) == t + LocalTZA(t)

\* for comparison: a local time that exists twice is given the offset in
\* force after the transition
UTC_offsetAfter(l) ==
    LET before == l - OffsetBefore(tz)
        after  == l - OffsetAfter(tz)
    IN  IF after >= Transition THEN after
        ELSE IF before < Transition THEN before
        ELSE before

\* The instant of local time l.
UTC(l) ==
    LET before == l - OffsetBefore(tz)
        after  == l - OffsetAfter(tz)
    IN  IF before < Transition THEN before
        ELSE IF after >= Transition THEN after
        ELSE before

getHours(t) == (LocalTime(t) % Day) \div Hour

\* ToIntegerOrInfinity of a number given in halves: towards zero.
truncHalves(halves) ==
    IF halves >= 0 THEN halves \div 2 ELSE -((-halves) \div 2)

\* Date.prototype.setHours(hour) with hour given in halves: the local day,
\* minutes and seconds are kept, the hour is replaced, and the result is
\* turned back into an instant.
setHours(t, hourHalves) ==
    LET l == LocalTime(t)
    IN  UTC((l - (l % Day)) + truncHalves(hourHalves) * Hour + (l % Hour))

\* calculateSLADeadline(createdAt, slaHours): the two Date objects after
\* the call, the argument and the one returned.
calculateSLADeadline(created, halves) ==
    LET copy == created
    IN  [createdAt |-> created,
         deadline  |-> setHours(copy, 2 * getHours(copy) + halves)]

\* for comparison: breached at the deadline already
isSLABreached_atDeadline(d, now) == now >= d

isSLABreached(d, now) == now > d

WarningHours == 4

\* for comparison: the warning band is closed at four hours
getSLAStatus_closedBand(d, now) ==
    LET diff == d - now
    IN  IF diff < 0 THEN "breached"
        ELSE IF diff <= WarningHours * Hour THEN "warning"
        ELSE "ok"

\* getSLAStatus(deadline) when new Date() reads `now`; hoursLeft < h is
\* diff < h * 3600 seconds.
getSLAStatus(d, now) ==
    LET diff == d - now
    IN  IF diff < 0 THEN "breached"
        ELSE IF diff < WarningHours * Hour THEN "warning"
        ELSE "ok"

\* The window of the clock, in hours after the epoch of the model.
HorizonHours == 18

\* The clock when the scenario starts: half past the hour, before and
\* after the transition, and the transition itself.
StartTimes ==
    {Transition - 9000, Transition - 5400, Transition - 1800,
     Transition, Transition + 1800}

\* slaHours in half hours: -1, 0, 1, 1.5, 2, 5 and 8 hours.
SlaHalves == {-2, 0, 2, 3, 4, 10, 16}

\* The clock is observed on the half hours, one second before and one
\* second after them.
nextObservation(t) ==
    IF t % 1800 = 1799 THEN t + 1
    ELSE IF t % 1800 = 0 THEN t + 1
    ELSE t + 1798

InitSLA ==
    /\ tz \in Zones
    /\ clock \in StartTimes
    /\ createdAt = 0
    /\ slaHours = 0
    /\ deadline = 0
    /\ slaPc = "new"
    /\ slaRet = "none"
    /\ ClassifierOff
    /\ ComplaintOff
    /\ PatternsOff
    /\ StatusOff
    /\ StoreOff
    /\ FormOff
    /\ CallersOff

\* A deadline is computed for a complaint created now.
CalculateSLADeadline ==
    /\ slaPc = "new"
    /\ \E halves \in SlaHalves :
          LET dates == calculateSLADeadline(clock, halves)
          IN  /\ slaHours' = halves
              /\ createdAt' = dates.createdAt
              /\ deadline' = dates.deadline
    /\ slaPc' = "stamped"
    /\ UNCHANGED <<tz, clock, slaRet>>
    /\ UNCHANGED notSla

Tick ==
    /\ slaPc # "new"
    /\ nextObservation(clock) <= HorizonHours * Hour
    /\ clock' = nextObservation(clock)
    /\ slaPc' = "waiting"
    /\ UNCHANGED <<tz, createdAt, slaHours, deadline, slaRet>>
    /\ UNCHANGED notSla

GetSLAStatus ==
    /\ slaPc # "new"
    /\ slaPc' = "getSLAStatus"
    /\ slaRet' = getSLAStatus(deadline, clock)
    /\ UNCHANGED <<tz, clock, createdAt, slaHours, deadline>>
    /\ UNCHANGED notSla

IsSLABreached ==
    /\ slaPc # "new"
    /\ slaPc' = "isSLABreached"
    /\ slaRet' = isSLABreached(deadline, clock)
    /\ UNCHANGED <<tz, clock, createdAt, slaHours, deadline>>
    /\ UNCHANGED notSla

NextSLA ==
    \/ CalculateSLADeadline
    \/ Tick
    \/ GetSLAStatus
    \/ IsSLABreached

SpecSLA == InitSLA /\ [][NextSLA]_vars


(***************************************************************************)
(* Claims on the SLA calculator.                                           *)
(***************************************************************************)

\* C16: getSLAStatus partitions time around the deadline: "breached" when
\* now is after the deadline, "warning" when the deadline is now or less
\* than four hours ahead, "ok" when it is four hours or more ahead.  At
\* the deadline itself the status is "warning", a second later it is
\* "breached", exactly four hours before it is "ok"; five hours before a
\* computed deadline it is "ok" and three hours before it is "warning".
C16_StatusPartition ==
    slaPc = "getSLAStatus" =>
        LET left == deadline - clock
        IN  /\ slaRet \in {"breached", "warning", "ok"}
            /\ (slaRet = "breached") <=> (clock > deadline)
            /\ (slaRet = "warning") <=> (0 <= left /\ left < 4 * Hour)
            /\ (slaRet = "ok") <=> (left >= 4 * Hour)
            /\ (clock = deadline) => (slaRet = "warning")
            /\ (clock = deadline + 1) => (slaRet = "breached")
            /\ (left = 4 * Hour) => (slaRet = "ok")
            /\ (left = 5 * Hour) => (slaRet = "ok")
            /\ (left = 3 * Hour) => (slaRet = "warning")

\* The status is asked exactly four hours before the deadline.
C16_Witness ==
    /\ slaPc = "getSLAStatus"
    /\ deadline - clock = 4 * Hour
    /\ clock >= createdAt
    /\ slaRet = "ok"

\* C17: calculateSLADeadline returns the instant exactly slaHours * 3600
\* seconds after createdAt, for every timestamp and every slaHours, and
\* leaves the Date passed in as it was.  (slaHours is in half hours, so
\* an hour is two of them.)
C17_DeadlineExact ==
    (slaPc = "stamped") =>
        /\ 2 * (deadline - createdAt) = slaHours * Hour
        /\ createdAt = clock

\* C18: with slaHours zero or negative the deadline is at or before
\* createdAt, and the status at any time from createdAt on is never "ok".
C18_NonPositiveNeverOk ==
    (slaPc # "new" /\ slaHours <= 0) =>
        /\ deadline <= createdAt
        /\ clock >= createdAt
        /\ (slaPc = "getSLAStatus") => (slaRet # "ok")

\* The clocks have been moved back, the complaint is created in the hour
\* that repeats with slaHours 0, and its status is asked at that instant.
C18_Witness ==
    /\ slaPc = "getSLAStatus"
    /\ slaHours = 0
    /\ tz = "fallBack"
    /\ clock = createdAt
    /\ deadline < createdAt
    /\ slaRet = "breached"



\* How far a status is along ok, warning, breached.
StatusRank(status) ==
    IF status = "ok" THEN 0 ELSE IF status = "warning" THEN 1 ELSE 2

\* C29: for a deadline once computed, the status getSLAStatus gives does
\* not go back along ok, warning, breached while the clock advances, so
\* that "breached" stays once it is given; what getSLAStatus returns is that
\* status, and at every instant isSLABreached returns true exactly when
\* getSLAStatus gives "breached".
C29_StatusMonotone ==
    /\ [](/\ (slaPc = "getSLAStatus") =>
                /\ slaRet = getSLAStatus(deadline, clock)
                /\ (slaRet = "breached") <=> isSLABreached(deadline, clock)
          /\ (slaPc = "isSLABreached") =>
                (slaRet <=> (getSLAStatus(deadline, clock) = "breached")))
    /\ [][(slaPc # "new") =>
             /\ clock' >= clock
             /\ deadline' = deadline
             /\ StatusRank(getSLAStatus(deadline, clock))
                    <= StatusRank(getSLAStatus(deadline', clock'))]_vars

\* The status of a deadline that lay five hours ahead of the creation is
\* asked after it has passed.
C29_Witness ==
    /\ slaPc = "getSLAStatus"
    /\ slaHours = 10
    /\ deadline >= createdAt + 4 * Hour
    /\ clock > deadline
    /\ slaRet = "breached"


(***************************************************************************)
(* The full classification of a complaint (ai-engine.ts: classifyComplaint)*)
(* and its submission (complaints.service.ts: createComplaint).            *)
(***************************************************************************)

\* The null stored for a deadline that is absent, kept apart from the
\* instants, none of which is negative.
Null == -1

\* departments.find(d => d.categories.includes(category)) over
\* departments[i..]: the index of the first match, 0 when there is none.
\* A variant that returns the last match.
findByCategory_last(departments, category, i) ==
    LET matching == {j \in i..Len(departments) : category \in departments[j].categories}
    IN  IF matching = {} THEN 0
        ELSE CHOOSE j \in matching : \A k \in matching : k <= j

RECURSIVE findByCategory(_, _, _)
findByCategory(departments, category, i) ==
    IF i > Len(departments) THEN 0
    ELSE IF category \in departments[i].categories THEN i
    ELSE findByCategory(departments, category, i + 1)

\* A variant that concatenates title and description without a separator.
classifyComplaint_noSeparator(t, d, departments) ==
    LET fullText == t \o d
        classified == classifyCategory(fullText)
        suggestedDepartment == findByCategory(departments, classified.category, 1)
    IN  [category   |-> classified.category,
         confidence |-> classified.confidence,
         priority   |-> determinePriority(fullText, classified.category),
         keywords   |-> extractKeywords(fullText),
         suggestedDepartmentId |->
             IF suggestedDepartment = 0 THEN Undefined
             ELSE departments[suggestedDepartment].id]

classifyComplaint(t, d, departments) ==
    LET fullText == t \o " " \o d
        classified == classifyCategory(fullText)
        suggestedDepartment == findByCategory(departments, classified.category, 1)
    IN  [category   |-> classified.category,
         confidence |-> classified.confidence,
         priority   |-> determinePriority(fullText, classified.category),
         keywords   |-> extractKeywords(fullText),
         suggestedDepartmentId |->
             IF suggestedDepartment = 0 THEN Undefined
             ELSE departments[suggestedDepartment].id]

\* departments.find(d => d.id === suggestedDepartmentId ||
\* d.categories.includes(category)) over departments[i..].
RECURSIVE findDepartment(_, _, _, _)
findDepartment(departments, suggestedDepartmentId, category, i) ==
    IF i > Len(departments) THEN 0
    ELSE IF \/ departments[i].id = suggestedDepartmentId
            \/ category \in departments[i].categories
         THEN i
    ELSE findDepartment(departments, suggestedDepartmentId, category, i + 1)

\* x || y on strings: the empty string is falsy.
orElse(x, y) == IF x # "" THEN x ELSE y

\* The document createComplaint adds to the complaints collection, given
\* the aiResult it got from classifyComplaint, when the client clock reads
\* `now` and the server stamps `serverTime`.
newComplaint(formData, aiResult, userId, userName, departments, now, serverTime) ==
    LET category == orElse(formData.category, aiResult.category)
        priority == orElse(formData.priority, aiResult.priority)
        found == findDepartment(departments, aiResult.suggestedDepartmentId, category, 1)
        dept == IF found # 0 THEN found
                ELSE IF Len(departments) > 0 THEN 1
                ELSE 0
    IN  [userId |-> userId,
         userName |-> userName,
         title |-> formData.title,
         description |-> formData.description,
         category |-> category,
         departmentId |-> IF dept = 0 THEN "" ELSE departments[dept].id,
         departmentName |-> IF dept = 0 THEN "" ELSE departments[dept].name,
         priority |-> priority,
         status |-> "pending",
         images |-> <<>>,
         aiConfidence |-> aiResult.confidence,
         aiSuggestedCategory |-> aiResult.category,
         keywords |-> aiResult.keywords,
         statusHistory |-> <<[status |-> "pending", changedAt |-> now,
                              changedBy |-> userId, changedByName |-> userName,
                              note |-> "Complaint submitted"]>>,
         slaDeadline |-> IF dept = 0 THEN Null
                         ELSE calculateSLADeadline(now, departments[dept].slaHours).deadline,
         createdAt |-> serverTime,
         updatedAt |-> serverTime]

\* -------------------------------------------------------------- the inputs

MaxDepartments == 2

\* Departments as createComplaint receives them; slaHours in half hours.
Departments ==
    {[id |-> "dept-water", name |-> "Water Supply",
      categories |-> {"water", "sanitation"}, slaHours |-> 4],
     [id |-> "dept-plumbing", name |-> "Plumbing",
      categories |-> {"water"}, slaHours |-> 3],
     [id |-> "dept-estate", name |-> "Estate",
      categories |-> {"maintenance", "security"}, slaHours |-> 48],
     [id |-> "dept-desk", name |-> "Help Desk",
      categories |-> {"other"}, slaHours |-> 16]}

RECURSIVE DepartmentListsOf(_)
DepartmentListsOf(n) ==
    IF n = 0 THEN {<<>>}
    ELSE LET shorter == DepartmentListsOf(n - 1)
         IN  shorter \cup {Append(l, d) : l \in shorter, d \in Departments}

DepartmentLists == DepartmentListsOf(MaxDepartments)

Titles == {"", "?!", "No"}

Descriptions == {"", "water since 2 days!", "URGENT: Broken door lock"}

\* What the user confirmed in the form: "" where nothing was chosen.
FormCategories == {"", "security"}

FormPriorities == {"", "low"}

\* The images attached to the form.
FormImages == {<<>>, <<"photo.jpg">>}

\* The clock of the client at submission, half an hour before the zone
\* changes its offset, and how far the clock of the
\* server is ahead of it, in seconds.
SubmitTimes == {Transition - 1800}

ServerSkews == {0, 2}

\* classifyComplaint on every input explored, evaluated once.
classifyComplaintOf ==
    [t \in Titles |-> [d \in Descriptions |-> [l \in DepartmentLists |->
        classifyComplaint(t, d, l)]]]

InitComplaint ==
    /\ title \in Titles
    /\ description \in Descriptions
    /\ cPc = "ready"
    /\ cArg = "none"
    /\ cRet = "none"
    /\ complaintDocs = <<>>
    /\ notifications = <<>>
    /\ text = title \o " " \o description
    /\ pc = "ready"
    /\ arg = "none"
    /\ ret = "none"
    /\ tz \in Zones
    /\ clock \in SubmitTimes
    /\ createdAt = 0
    /\ slaHours = 0
    /\ deadline = 0
    /\ slaPc = "off"
    /\ slaRet = "none"
    /\ PatternsOff
    /\ StatusOff
    /\ StoreOff
    /\ FormOff
    /\ CallersOff

\* One of the classifier functions is called on the text of the form.
CallClassifier ==
    /\ cPc = "ready"
    /\ Next

ClassifyComplaint ==
    /\ cPc = "ready"
    /\ pc = "ready"
    /\ \E departments \in DepartmentLists :
          /\ cArg' = [departments |-> departments]
          /\ cRet' = classifyComplaintOf[title][description][departments]
    /\ cPc' = "classifyComplaint"
    /\ UNCHANGED <<title, description, complaintDocs, notifications>>
    /\ UNCHANGED notComplaint

\* createComplaint: the document is added, the images are uploaded and
\* their URLs written to it, and the owner is notified.
\* The department list, the choices of the form and the lag of the server
\* clock are drawn from the sets given.
CreateComplaintWith(departmentLists, categories, priorities, imageLists, skews) ==
    /\ cPc = "ready"
    /\ pc = "ready"
    /\ \E departments \in departmentLists :
          LET id == Len(complaintDocs) + 1
              aiResult == classifyComplaintOf[title][description][departments]
          IN  \E category \in categories, priority \in priorities,
                 images \in imageLists, skew \in skews :
                  LET formData == [title |-> title, description |-> description,
                                   category |-> category, priority |-> priority,
                                   images |-> images]
                      added == newComplaint(formData, aiResult, "user-1", "User One",
                                            departments, clock, clock + skew)
                      imageUrls == [i \in 1..Len(images) |-> "url-of-" \o images[i]]
                  IN  /\ cArg' = [formData |-> formData, departments |-> departments]
                      /\ complaintDocs' =
                             Append(complaintDocs,
                                    IF Len(images) > 0
                                    THEN [added EXCEPT !.images = imageUrls]
                                    ELSE added)
                      /\ notifications' =
                             Append(notifications,
                                    [userId |-> "user-1",
                                     title |-> "Complaint Registered",
                                     message |-> "Your complaint \"" \o title
                                         \o "\" has been successfully registered.",
                                     type |-> "status_update",
                                     complaintId |-> id,
                                     isRead |-> FALSE])
                      /\ cRet' = id
    /\ cPc' = "createComplaint"
    /\ UNCHANGED <<title, description>>
    /\ UNCHANGED notComplaint

CreateComplaint ==
    CreateComplaintWith(DepartmentLists, FormCategories, FormPriorities, FormImages,
                        ServerSkews)

NextComplaint ==
    \/ CallClassifier
    \/ ClassifyComplaint
    \/ CreateComplaint

SpecComplaint == InitComplaint /\ [][NextComplaint]_vars


(***************************************************************************)
(* Claims on the classification and the submission of a complaint.         *)
(***************************************************************************)

Priorities == {"urgent", "high", "normal", "low"}

\* The text classifyComplaint is specified on.
FullText == title \o " " \o description

\* C12: classifyComplaint(title, description, departments) returns the
\* category and confidence of classifyCategory(T), the priority of
\* determinePriority(T, that category) and the keywords of
\* extractKeywords(T), where T is the title, one space, the description;
\* so a phrase that starts at the end of the title and ends at the start of
\* the description is matched.
C12_ComposesOnJoinedText ==
    (cPc = "classifyComplaint") =>
        LET classified == classifyCategory(FullText)
        IN  /\ cRet.category = classified.category
            /\ cRet.confidence = classified.confidence
            /\ cRet.priority = determinePriority(FullText, classified.category)
            /\ cRet.keywords = extractKeywords(FullText)
            /\ (title = "No" /\ Len(description) >= 5
                    /\ SubSeq(description, 1, 5) = "water")
                   => "no water" \in Range(cRet.keywords)

\* The title ends with "No" and the description starts with "water".
C12_Witness ==
    /\ cPc = "classifyComplaint"
    /\ title = "No"
    /\ description = "water since 2 days!"
    /\ cRet.category = "water"
    /\ "no water" \in Range(cRet.keywords)
    /\ cRet.priority = "high"

\* The positions of the departments of a list that handle a category.
Handling(departments, category) ==
    {i \in 1..Len(departments) : category \in departments[i].categories}

\* C13: suggestedDepartmentId is the id of the first department of the
\* list whose categories contain the resolved category, and is undefined
\* exactly when there is none (the empty list included).  The slaHours of
\* the departments and the departments behind the first match have no
\* effect on it.
C13_FirstHandlingDepartment ==
    (cPc = "classifyComplaint") =>
        LET departments == cArg.departments
            handling == Handling(departments, cRet.category)
            first == CHOOSE i \in handling : \A j \in handling : i <= j
            sameSla == [i \in 1..Len(departments) |->
                            [departments[i] EXCEPT !.slaHours = 2]]
        IN  /\ (cRet.suggestedDepartmentId = Undefined) <=> (handling = {})
            /\ (handling # {}) =>
                   /\ cRet.suggestedDepartmentId = departments[first].id
                   /\ classifyComplaint(title, description,
                                        SubSeq(departments, 1, first)).suggestedDepartmentId
                          = cRet.suggestedDepartmentId
            /\ classifyComplaint(title, description, sameSla).suggestedDepartmentId
                   = cRet.suggestedDepartmentId

\* Two departments with different ids and slaHours handle the category,
\* and the second one is not suggested.
C13_Witness ==
    /\ cPc = "classifyComplaint"
    /\ Len(cArg.departments) = 2
    /\ cRet.category = "water"
    /\ cArg.departments[1].id = "dept-plumbing"
    /\ cArg.departments[2].id = "dept-water"
    /\ cRet.suggestedDepartmentId = "dept-plumbing"

\* C14: the classifier operations return a valid result for every text,
\* the empty one and one made of stripped characters only included, and
\* classifyComplaint("", "", []) returns category "other", confidence 0.3,
\* priority "normal", no keyword and no suggestedDepartmentId.
C14_TotalWithValidResults ==
    /\ (pc = "classifyCategory") =>
           /\ ret.category \in Range(Categories)
           /\ ret.confidence \in 0..100
    /\ (pc = "determinePriority") => ret \in Priorities
    /\ (pc = "extractKeywords") =>
           /\ Len(ret) <= 10
           /\ Range(ret) \subseteq Range(ScanOrder)
    /\ (pc = "analyzeSentiment") => ret \in {"negative", "neutral", "positive"}
    /\ (cPc = "classifyComplaint") =>
           /\ cRet.category \in Range(Categories)
           /\ cRet.confidence \in 0..100
           /\ cRet.priority \in Priorities
           /\ Len(cRet.keywords) <= 10
           /\ Range(cRet.keywords) \subseteq Range(ScanOrder)
           /\ cRet.suggestedDepartmentId
                  \in {Undefined} \cup {d.id : d \in Range(cArg.departments)}
           /\ (title = "" /\ description = "" /\ cArg.departments = <<>>) =>
                  cRet = [category |-> "other", confidence |-> 30,
                          priority |-> "normal", keywords |-> <<>>,
                          suggestedDepartmentId |-> Undefined]
           /\ (preprocessText(FullText) = "") =>
                  /\ cRet.category = "other"
                  /\ cRet.keywords = <<>>

\* classifyComplaint("", "", []) has returned.
C14_Witness ==
    /\ cPc = "classifyComplaint"
    /\ title = ""
    /\ description = ""
    /\ cArg.departments = <<>>
    /\ cRet.category = "other"
    /\ cRet.confidence = 30
    /\ cRet.suggestedDepartmentId = Undefined

\* C19: createComplaint stores the category and the priority the user
\* confirmed in the form when they are set and those of the classifier
\* otherwise; it always stores the classifier's category, confidence and
\* keywords as aiSuggestedCategory, aiConfidence and keywords; slaDeadline
\* is the submission time plus the slaHours of the department the
\* complaint is routed to (slaHours is in half hours), and is null exactly
\* when the list of departments is empty.
C19_StoredComplaint ==
    (cPc = "createComplaint") =>
        LET stored == complaintDocs[cRet]
            formData == cArg.formData
            departments == cArg.departments
            aiResult == classifyComplaintOf[title][description][departments]
            routed == CHOOSE d \in Range(departments) : d.id = stored.departmentId
        IN  /\ stored.category = IF formData.category # "" THEN formData.category
                                 ELSE aiResult.category
            /\ stored.priority = IF formData.priority # "" THEN formData.priority
                                 ELSE aiResult.priority
            /\ stored.aiSuggestedCategory = aiResult.category
            /\ stored.aiConfidence = aiResult.confidence
            /\ stored.keywords = aiResult.keywords
            /\ (stored.slaDeadline = Null) <=> (departments = <<>>)
            /\ (departments # <<>>) =>
                   2 * (stored.slaDeadline - clock) = routed.slaHours * Hour


\* C24: after createComplaint, when some department of the list handles the
\* stored category, the stored departmentId is the id of a department
\* that handles it, also when the category of the form is not the one of
\* the classifier; when none handles it the first department of the list
\* is taken; departmentId is empty exactly when the list is empty.
C24_RoutedToHandlingDepartment ==
    (cPc = "createComplaint") =>
        LET stored == complaintDocs[Len(complaintDocs)]
            departments == cArg.departments
            handling == Handling(departments, stored.category)
        IN  /\ (handling # {}) =>
                   \E i \in handling : stored.departmentId = departments[i].id
            /\ (handling = {} /\ departments # <<>>) =>
                   stored.departmentId = departments[1].id
            /\ (stored.departmentId = "") <=> (departments = <<>>)


(***************************************************************************)
(* The analysis of patterns (ai-engine.ts: analyzePatterns).               *)
(*                                                                         *)
(* An object used as a map keeps its keys in the order of insertion, so    *)
(* it is a sequence of <<key, count>> pairs here.                          *)
(***************************************************************************)

\* toLocaleDateString('en-US', {weekday: 'long'}): the epoch was a Thursday.
WeekDays ==
    <<"Thursday", "Friday", "Saturday", "Sunday", "Monday", "Tuesday", "Wednesday">>

weekday(t) == WeekDays[((LocalTime(t) \div Day) % 7) + 1]

\* map[key] = (map[key] ?? 0) + 1
increment(entries, key) ==
    IF \E i \in 1..Len(entries) : entries[i][1] = key
    THEN [i \in 1..Len(entries) |->
              IF entries[i][1] = key THEN <<key, entries[i][2] + 1>> ELSE entries[i]]
    ELSE Append(entries, <<key, 1>>)

\* categoryCount after the first i complaints.
RECURSIVE countCategories(_, _)
countCategories(list, i) ==
    IF i = 0 THEN <<>>
    ELSE increment(countCategories(list, i - 1), list[i].category)

\* categoryByDay[category] after the first i complaints.
RECURSIVE countDays(_, _, _)
countDays(list, category, i) ==
    IF i = 0 THEN <<>>
    ELSE IF list[i].category = category
         THEN increment(countDays(list, category, i - 1), weekday(list[i].createdAt))
         ELSE countDays(list, category, i - 1)

\* for comparison: days of equal count come out in the reverse of the order
\* of their insertion
peakDaysOf_lastFirst(dayMap) ==
    LET reversed == [k \in 1..Len(dayMap) |-> dayMap[Len(dayMap) + 1 - k]]
        top == slice0(sortDesc(reversed, Len(reversed)), 2)
    IN  [k \in 1..Len(top) |-> top[k][1]]

\* Object.entries(dayMap).sort(([, a], [, b]) => b - a).slice(0, 2).map(([day]) => day)
peakDaysOf(dayMap) ==
    LET top == slice0(sortDesc(dayMap, Len(dayMap)), 2)
    IN  [k \in 1..Len(top) |-> top[k][1]]

\* The shares whose hundredfold is an exact half that the double
\* arithmetic of count / total * 100 puts just below the half, among the
\* totals up to 40: 23 / 40 * 100 is 57.49999999999999.
TiesBelowHalf == {<<23, 40>>}

\* for comparison: the percentage is cut instead of rounded
roundPercent_floor(count, total) == (100 * count) \div total

\* Math.round((count / total) * 100)
roundPercent(count, total) ==
    IF <<count, total>> \in TiesBelowHalf
    THEN (100 * count) \div total
    ELSE (200 * count + total) \div (2 * total)

recommendationOf(category, frequency) ==
    IF frequency > 30
    THEN "High volume of " \o category
         \o " complaints. Consider preventive maintenance schedule."
    ELSE IF frequency > 15
    THEN "Moderate " \o category \o " issues. Review infrastructure condition."
    ELSE category \o " complaints are within normal range."

trendOf(frequency) ==
    IF frequency > 20 THEN "increasing"
    ELSE IF frequency > 10 THEN "stable"
    ELSE "decreasing"

\* for comparison: the insights are returned in the order of their pushing
analyzePatterns_unsorted(list) ==
    LET categoryCount == countCategories(list, Len(list))
        total == IF Len(list) = 0 THEN 1 ELSE Len(list)
        pushed == [k \in 1..Len(categoryCount) |->
                      LET category == categoryCount[k][1]
                          frequency == roundPercent(categoryCount[k][2], total)
                      IN  [category |-> category,
                           frequency |-> frequency,
                           trend |-> trendOf(frequency),
                           peakDays |-> peakDaysOf(countDays(list, category, Len(list))),
                           recommendation |-> recommendationOf(category, frequency)]]
    IN  pushed

analyzePatterns(list) ==
    LET categoryCount == countCategories(list, Len(list))
        total == IF Len(list) = 0 THEN 1 ELSE Len(list)
        pushed == [k \in 1..Len(categoryCount) |->
                      LET category == categoryCount[k][1]
                          frequency == roundPercent(categoryCount[k][2], total)
                      IN  [category |-> category,
                           frequency |-> frequency,
                           trend |-> trendOf(frequency),
                           peakDays |-> peakDaysOf(countDays(list, category, Len(list))),
                           recommendation |-> recommendationOf(category, frequency)]]
        byFrequency == sortDesc([k \in 1..Len(pushed) |-> <<pushed[k], pushed[k].frequency>>],
                                Len(pushed))
    IN  [k \in 1..Len(byFrequency) |-> byFrequency[k][1]]

\* -------------------------------------------------------------- the inputs

MaxFree == 3

MaxRepeat == 9

\* Complaints of three categories created on a Thursday at noon, on the
\* same Thursday at 23:00 UTC, which is Friday in the zone of the runtime,
\* and on the Monday after.
PatternComplaints ==
    {[category |-> c, createdAt |-> t] :
        c \in {"water", "electrical", "other"},
        t \in {12 * Hour, 23 * Hour, 4 * Day + 12 * Hour}}

RECURSIVE FreeListsOf(_)
FreeListsOf(n) ==
    IF n = 0 THEN {<<>>}
    ELSE LET shorter == FreeListsOf(n - 1)
         IN  shorter \cup {Append(l, c) : l \in shorter, c \in PatternComplaints}

\* n complaints about water created on the Monday.
Repeated(n) == [i \in 1..n |-> [category |-> "water", createdAt |-> 4 * Day + 12 * Hour]]

\* The collections explored: any complaints up to MaxFree, followed by up
\* to MaxRepeat complaints about water.
Collections ==
    {free \o Repeated(n) : free \in FreeListsOf(MaxFree), n \in 0..MaxRepeat}

InitPatterns ==
    /\ complaints \in Collections
    /\ pPc = "ready"
    /\ insights = <<>>
    /\ ClassifierOff
    /\ SlaOff
    /\ ComplaintOff
    /\ CallersOff
    /\ StatusOff
    /\ StoreOff
    /\ FormOff

AnalyzePatterns ==
    /\ pPc = "ready"
    /\ pPc' = "analyzePatterns"
    /\ insights' = analyzePatterns(complaints)
    /\ UNCHANGED complaints
    /\ UNCHANGED <<classifierVars, slaVars, complaintVars, callerVars>>
    /\ UNCHANGED <<statusVars, storeVars, formVars>>

NextPatterns == AnalyzePatterns

SpecPatterns == InitPatterns /\ [][NextPatterns]_vars

(***************************************************************************)
(* Claims on the analysis of patterns.                                     *)
(***************************************************************************)

\* The number of complaints of a category in a collection.
CountOf(list, category) ==
    Cardinality({i \in 1..Len(list) : list[i].category = category})

\* The same complaints, all created at the epoch.
Retimed(list) == [i \in 1..Len(list) |-> [list[i] EXCEPT !.createdAt = 0]]

\* C20: for a collection that is not empty, the frequency of every insight
\* is count / total * 100 rounded to the nearest integer (count the number
\* of complaints of the category, total the number of complaints), and its
\* trend is "increasing" when the frequency is above 20, "stable" when it
\* is above 10 and at most 20, "decreasing" when it is at most 10; the
\* frequencies and trends are the same whatever the times of creation.
C20_FrequencyAndTrend ==
    (pPc = "analyzePatterns" /\ complaints # <<>>) =>
        LET total == Len(complaints)
            retimed == analyzePatterns(Retimed(complaints))
        IN  /\ \A k \in 1..Len(insights) :
                  LET insight == insights[k]
                      count == CountOf(complaints, insight.category)
                      off == insight.frequency * total - 100 * count
                  IN  /\ 2 * off <= total
                      /\ -2 * off <= total
                      /\ (insight.trend = "increasing") <=> (insight.frequency > 20)
                      /\ (insight.trend = "stable") <=>
                             (insight.frequency > 10 /\ insight.frequency <= 20)
                      /\ (insight.trend = "decreasing") <=> (insight.frequency <= 10)
            /\ Len(retimed) = Len(insights)
            /\ \A k \in 1..Len(insights) :
                  /\ retimed[k].category = insights[k].category
                  /\ retimed[k].frequency = insights[k].frequency
                  /\ retimed[k].trend = insights[k].trend

\* Eleven complaints created on different days: eight about water (73%),
\* two electrical (18%), one other (9%).
C20_Witness ==
    /\ pPc = "analyzePatterns"
    /\ Len(complaints) = 11
    /\ Len(insights) = 3
    /\ insights[1].trend = "increasing"
    /\ insights[2].trend = "stable"
    /\ insights[2].frequency = 18
    /\ insights[3].trend = "decreasing"
    /\ insights[3].frequency = 9
    /\ \E i, j \in 1..Len(complaints) : complaints[i].createdAt # complaints[j].createdAt


\* The weekdays on which the complaints of a collection were created.
DaysOf(list) == {weekday(list[i].createdAt) : i \in 1..Len(list)}

\* The categories of the complaints of a collection.
CategoriesOf(list) == {list[i].category : i \in 1..Len(list)}

\* C21: analyzePatterns returns exactly one insight for every category that
\* some complaint of the collection has and no other insight (none for the
\* empty collection), in the order of non-increasing frequency; when all
\* complaints have one category and one weekday the result is one insight
\* of frequency 100 and trend "increasing" whose peakDays are that weekday
\* alone.
C21_OneInsightPerCategory ==
    pPc = "analyzePatterns" =>
        /\ {insights[k].category : k \in 1..Len(insights)} = CategoriesOf(complaints)
        /\ Len(insights) = Cardinality(CategoriesOf(complaints))
        /\ (complaints = <<>>) => (insights = <<>>)
        /\ \A k \in 1..(Len(insights) - 1) :
               insights[k].frequency >= insights[k + 1].frequency
        /\ (Cardinality(CategoriesOf(complaints)) = 1
              /\ Cardinality(DaysOf(complaints)) = 1)
             => /\ Len(insights) = 1
                /\ insights[1].frequency = 100
                /\ insights[1].trend = "increasing"
                /\ insights[1].peakDays = <<weekday(complaints[1].createdAt)>>

\* Nine complaints about water, all created on the Monday.
C21_Witness ==
    /\ pPc = "analyzePatterns"
    /\ Len(complaints) = 9
    /\ CategoriesOf(complaints) = {"water"}
    /\ DaysOf(complaints) = {"Monday"}
    /\ Len(insights) = 1
    /\ insights[1].frequency = 100
    /\ insights[1].peakDays = <<"Monday">>

\* The complaints of a category created on a weekday, by their positions.
OnDay(list, category, day) ==
    {i \in 1..Len(list) :
        list[i].category = category /\ weekday(list[i].createdAt) = day}

\* The position of the first complaint of a category created on a weekday.
FirstOnDay(list, category, day) ==
    CHOOSE i \in OnDay(list, category, day) :
        \A j \in OnDay(list, category, day) : i <= j

\* C22: the peakDays of every insight are at most two different weekdays
\* on which complaints of its category were created, in the order of
\* non-increasing number of those complaints; no weekday left out has more
\* complaints of the category than a weekday listed (so both are listed
\* when there are two or more); of two weekdays with equal numbers, the one
\* listed first, or listed at all, is the one on which the earlier
\* complaint of the category in the collection was created.
C22_PeakDays ==
    pPc = "analyzePatterns" =>
        \A k \in 1..Len(insights) :
            LET category == insights[k].category
                peak == insights[k].peakDays
                days == DaysOf(SelectSeq(complaints, LAMBDA c : c.category = category))
                count(day) == Cardinality(OnDay(complaints, category, day))
                first(day) == FirstOnDay(complaints, category, day)
                before(d, e) ==
                    \/ count(d) > count(e)
                    \/ count(d) = count(e) /\ first(d) < first(e)
            IN  /\ Len(peak) = (IF Cardinality(days) < 2 THEN Cardinality(days) ELSE 2)
                /\ Range(peak) \subseteq days
                /\ Cardinality(Range(peak)) = Len(peak)
                /\ Len(peak) = 2 => before(peak[1], peak[2])
                /\ \A out \in days \ Range(peak) :
                       \A k2 \in 1..Len(peak) : before(peak[k2], out)

\* Three complaints about water, created on the Monday, on the Friday and
\* on the Thursday in the order of the collection: the peak days are Monday
\* and Friday, whatever the order of the days in the week or the alphabet.
C22_Witness ==
    /\ pPc = "analyzePatterns"
    /\ Len(complaints) = 3
    /\ \A i \in 1..3 : complaints[i].category = "water"
    /\ <<weekday(complaints[1].createdAt), weekday(complaints[2].createdAt),
          weekday(complaints[3].createdAt)>> = <<"Monday", "Friday", "Thursday">>
    /\ insights[1].peakDays = <<"Monday", "Friday">>


(***************************************************************************)
(* The sentiment of texts made of words of sentiment.                      *)
(***************************************************************************)

MaxWords == 3

\* Words of the two lists in mixed case and next to punctuation, words
\* that contain a word of a list ("thankful", "un-happy", "goodness"), two
\* words that punctuation alone separates, and a word of neither list.
SentimentPieces ==
    {"awful ", "USELESS! ", "Thank\t", "Good,great ", "thankful ", "un-happy ",
     "goodness\n", "water "}

RECURSIVE SentimentTextsOf(_)
SentimentTextsOf(n) ==
    IF n = 0 THEN {""}
    ELSE LET shorter == SentimentTextsOf(n - 1)
         IN  shorter \cup {t \o piece : t \in shorter, piece \in SentimentPieces}

SentimentTexts == SentimentTextsOf(MaxWords)

InitSentiment ==
    /\ text \in SentimentTexts
    /\ pc = "ready"
    /\ arg = "none"
    /\ ret = "none"
    /\ SlaOff
    /\ ComplaintOff
    /\ PatternsOff
    /\ StatusOff
    /\ StoreOff
    /\ FormOff
    /\ CallersOff

NextSentiment == CallAnalyzeSentiment

SpecSentiment == InitSentiment /\ [][NextSentiment]_vars

\* The places of the preprocessed text p at which the word w stands as a
\* whole piece between white space or the ends of the text.
StandsAt(p, w) ==
    {i \in 1..(Len(p) - Len(w) + 1) :
        /\ SubSeq(p, i, i + Len(w) - 1) = w
        /\ (i = 1 \/ isSpace(p, i - 1))
        /\ (i + Len(w) - 1 = Len(p) \/ isSpace(p, i + Len(w)))}

\* The number of pieces of p that are words of the list.
Standing(p, words) ==
    Cardinality({<<i, w>> \in (1..Len(p)) \X Range(words) : i \in StandsAt(p, w)})

NetScore(p) == Standing(p, POSITIVE_WORDS) - Standing(p, NEGATIVE_WORDS)

\* C23: analyzeSentiment returns "negative" exactly when the net score of
\* the preprocessed text is below -1, "positive" exactly when it is above
\* 0, and "neutral" exactly when it is -1 or 0; the net score is the number
\* of white-space separated pieces that are positive words less the number
\* of those that are negative words, a word inside a longer piece not
\* counting.
C23_SentimentByNetScore ==
    pc = "analyzeSentiment" =>
        LET net == NetScore(Processed)
        IN  /\ (ret = "negative") <=> (net < -1)
            /\ (ret = "positive") <=> (net > 0)
            /\ (ret = "neutral") <=> (net \in {-1, 0})

\* One negative word and "thankful", which contains a positive word and is
\* none: the net score is -1 and the sentiment neutral.
C23_Witness ==
    /\ pc = "analyzeSentiment"
    /\ includes(Processed, "thank")
    /\ Standing(Processed, POSITIVE_WORDS) = 0
    /\ NetScore(Processed) = -1
    /\ ret = "neutral"


(***************************************************************************)
(* Several callers of the classifier in one runtime.                       *)
(*                                                                         *)
(* The keyword arrays are objects of the module that every call reads; a   *)
(* call works on them as the runtime holds them at that moment, and        *)
(* leaves them as its statements leave them.  A call of classifyComplaint  *)
(* is taken apart into the three calls it makes, so that the calls of      *)
(* other callers fall between them.                                        *)
(***************************************************************************)

\* The arrays as the module declares them.
DeclaredDictionaries ==
    [CATEGORY_KEYWORDS |-> CATEGORY_KEYWORDS,
     URGENT_KEYWORDS   |-> URGENT_KEYWORDS,
     HIGH_KEYWORDS     |-> HIGH_KEYWORDS,
     LOW_KEYWORDS      |-> LOW_KEYWORDS]

\* The outer loop of extractKeywords over the category arrays held in d.
RECURSIVE pushCategoriesIn(_, _, _, _)
pushCategoriesIn(d, processed, i, found) ==
    IF i > Len(Categories) THEN found
    ELSE LET keywords == d.CATEGORY_KEYWORDS[Categories[i]]
             after == pushMatches(processed, keywords, 1, Len(keywords), found)
         IN  IF Len(after) >= Len(found)
             THEN pushCategoriesIn(d, processed, i + 1, after)
             ELSE after

\* for comparison: the high keywords are pushed onto URGENT_KEYWORDS itself
priorityKeywordsOf_pushed(d) ==
    [priorityKeywords |-> d.URGENT_KEYWORDS \o d.HIGH_KEYWORDS,
     dictionaries |-> [d EXCEPT !.URGENT_KEYWORDS = @ \o d.HIGH_KEYWORDS]]

\* const priorityKeywords = [...URGENT_KEYWORDS, ...HIGH_KEYWORDS]: the new
\* array, and the arrays of the module after the statement.
priorityKeywordsOf(d) ==
    [priorityKeywords |-> d.URGENT_KEYWORDS \o d.HIGH_KEYWORDS,
     dictionaries |-> d]

\* extractKeywords run on the arrays d: what it returns and the arrays
\* after it.
extractKeywordsIn(d, t) ==
    LET processed == preprocessText(t)
        fromCategories == pushCategoriesIn(d, processed, 1, <<>>)
        spread == priorityKeywordsOf(d)
        found == pushMatches(processed, spread.priorityKeywords, 1,
                             Len(spread.priorityKeywords), fromCategories)
    IN  [result |-> slice0(found, 10), dictionaries |-> spread.dictionaries]

RECURSIVE scoreEntriesIn(_, _, _)
scoreEntriesIn(d, processed, i) ==
    IF i > Len(Categories) THEN <<>>
    ELSE (IF Categories[i] = "other" THEN <<>>
          ELSE << <<Categories[i],
                    scoreFrom(processed, d.CATEGORY_KEYWORDS[Categories[i]], 1)>> >>)
         \o scoreEntriesIn(d, processed, i + 1)

\* classifyCategory run on the arrays d; it sorts the entries of its own
\* `scores` and writes to no array of the module.
classifyCategoryIn(d, t) ==
    LET scores == scoreEntriesIn(d, preprocessText(t), 1)
        totalScore == sumScores(scores)
        sorted == sortDesc(scores, Len(scores))
    IN  [result |-> IF totalScore = 0
                    THEN [category |-> "other", confidence |-> 30]
                    ELSE [category |-> sorted[1][1],
                          confidence |-> confidenceOf(sorted[1][2], totalScore)],
         dictionaries |-> d]

\* determinePriority run on the arrays d.
determinePriorityIn(d, t, category) ==
    LET processed == preprocessText(t)
    IN  [result |-> IF anyIncluded(processed, d.URGENT_KEYWORDS, 1) THEN "urgent"
                    ELSE IF anyIncluded(processed, d.HIGH_KEYWORDS, 1) THEN "high"
                    ELSE IF anyIncluded(processed, d.LOW_KEYWORDS, 1) THEN "low"
                    ELSE IF category \in DOMAIN categoryPriorities
                         THEN categoryPriorities[category]
                         ELSE "normal",
         dictionaries |-> d]

\* -------------------------------------------------------------- the inputs

Callers == {"caller1", "caller2"}

CallerTexts == {"URGENT: Broken door lock", "No water since 2 days!", "?!"}

CallerCategories == {"water", "other"}

CallerDepartments ==
    {<<>>,
     <<[id |-> "dept-plumbing", categories |-> {"water"}],
       [id |-> "dept-water", categories |-> {"water", "sanitation"}]>>}

\* The calls a caller may make: the function and its arguments.
Calls ==
    {[fn |-> "classifyCategory", text |-> t] : t \in CallerTexts}
    \cup {[fn |-> "extractKeywords", text |-> t] : t \in CallerTexts}
    \cup {[fn |-> "determinePriority", text |-> t, category |-> c] :
              t \in CallerTexts, c \in CallerCategories}
    \cup {[fn |-> "classifyComplaint", title |-> "No", description |-> de,
           departments |-> l] :
              de \in {"water since 2 days!", "?!"}, l \in CallerDepartments}

Idle == [stage |-> "idle"]

InitCallers ==
    /\ dictionaries = DeclaredDictionaries
    /\ callers = [c \in Callers |-> Idle]
    /\ ClassifierOff
    /\ SlaOff
    /\ ComplaintOff
    /\ PatternsOff
    /\ StatusOff
    /\ StoreOff
    /\ FormOff

notCallers ==
    <<classifierVars, slaVars, complaintVars, patternVars, statusVars, storeVars,
      formVars>>

\* A caller enters a function.
Invoke(c) ==
    /\ callers[c].stage = "idle"
    /\ \E call \in Calls :
          callers' = [callers EXCEPT ![c] = [stage |-> "called", call |-> call]]
    /\ UNCHANGED dictionaries
    /\ UNCHANGED notCallers

\* classifyCategory, extractKeywords or determinePriority runs and returns.
Run(c) ==
    /\ callers[c].stage = "called"
    /\ callers[c].call.fn # "classifyComplaint"
    /\ LET call == callers[c].call
           ran == CASE call.fn = "classifyCategory" ->
                           classifyCategoryIn(dictionaries, call.text)
                    [] call.fn = "extractKeywords" ->
                           extractKeywordsIn(dictionaries, call.text)
                    [] call.fn = "determinePriority" ->
                           determinePriorityIn(dictionaries, call.text, call.category)
       IN  /\ callers' = [callers EXCEPT ![c] =
                              [stage |-> "returned", call |-> call, result |-> ran.result]]
           /\ dictionaries' = ran.dictionaries
    /\ UNCHANGED notCallers

\* classifyComplaint, up to the return of classifyCategory.
RunClassifyCategory(c) ==
    /\ callers[c].stage = "called"
    /\ callers[c].call.fn = "classifyComplaint"
    /\ LET call == callers[c].call
           ran == classifyCategoryIn(dictionaries, call.title \o " " \o call.description)
       IN  /\ callers' = [callers EXCEPT ![c] =
                              [stage |-> "classified", call |-> call,
                               category |-> ran.result.category,
                               confidence |-> ran.result.confidence]]
           /\ dictionaries' = ran.dictionaries
    /\ UNCHANGED notCallers

\* classifyComplaint, up to the return of determinePriority.
RunDeterminePriority(c) ==
    /\ callers[c].stage = "classified"
    /\ LET call == callers[c].call
           ran == determinePriorityIn(dictionaries, call.title \o " " \o call.description,
                                      callers[c].category)
       IN  /\ callers' = [callers EXCEPT ![c] =
                              [stage |-> "prioritised", call |-> call,
                               category |-> callers[c].category,
                               confidence |-> callers[c].confidence,
                               priority |-> ran.result]]
           /\ dictionaries' = ran.dictionaries
    /\ UNCHANGED notCallers

\* classifyComplaint, from the call of extractKeywords to its own return.
RunExtractKeywords(c) ==
    /\ callers[c].stage = "prioritised"
    /\ LET call == callers[c].call
           ran == extractKeywordsIn(dictionaries, call.title \o " " \o call.description)
           suggestedDepartment == findByCategory(call.departments, callers[c].category, 1)
       IN  /\ callers' = [callers EXCEPT ![c] =
                  [stage |-> "returned", call |-> call,
                   result |-> [category |-> callers[c].category,
                               confidence |-> callers[c].confidence,
                               priority |-> callers[c].priority,
                               keywords |-> ran.result,
                               suggestedDepartmentId |->
                                   IF suggestedDepartment = 0 THEN Undefined
                                   ELSE call.departments[suggestedDepartment].id]]]
           /\ dictionaries' = ran.dictionaries
    /\ UNCHANGED notCallers

\* The caller has used the result and may call again.
Leave(c) ==
    /\ callers[c].stage = "returned"
    /\ callers' = [callers EXCEPT ![c] = Idle]
    /\ UNCHANGED dictionaries
    /\ UNCHANGED notCallers

NextCallers ==
    \E c \in Callers :
        \/ Invoke(c)
        \/ Run(c)
        \/ RunClassifyCategory(c)
        \/ RunDeterminePriority(c)
        \/ RunExtractKeywords(c)
        \/ Leave(c)

SpecCallers == InitCallers /\ [][NextCallers]_vars

\* What a call returns when it is the only one that ever runs.
Alone(call) ==
    CASE call.fn = "classifyCategory" -> classifyCategory(call.text)
      [] call.fn = "extractKeywords" -> extractKeywords(call.text)
      [] call.fn = "determinePriority" -> determinePriority(call.text, call.category)
      [] call.fn = "classifyComplaint" ->
             classifyComplaint(call.title, call.description, call.departments)

\* C15: no call of classifyComplaint, classifyCategory, determinePriority
\* or extractKeywords changes the keyword arrays of the module, so that,
\* however the calls of several callers are interleaved, every call
\* returns what it returns when run alone, and two calls with the same
\* arguments return the same.
C15_CallsIndependent ==
    /\ dictionaries = DeclaredDictionaries
    /\ \A c \in Callers :
           (callers[c].stage = "returned") => (callers[c].result = Alone(callers[c].call))
    /\ \A c1, c2 \in Callers :
           (/\ callers[c1].stage = "returned"
            /\ callers[c2].stage = "returned"
            /\ callers[c1].call = callers[c2].call)
               => (callers[c1].result = callers[c2].result)

\* One caller has had extractKeywords return while the classifyComplaint
\* of the other, for a text with a high keyword and no urgent one, is
\* between its determinePriority and its extractKeywords.
C15_Witness ==
    /\ callers["caller1"].stage = "returned"
    /\ callers["caller1"].call.fn = "extractKeywords"
    /\ "broken" \in Range(callers["caller1"].result)
    /\ callers["caller2"].stage = "prioritised"
    /\ callers["caller2"].call.description = "water since 2 days!"
    /\ callers["caller2"].priority = "high"


(***************************************************************************)
(* The changes of status (complaints.service.ts: updateComplaintStatus).   *)
(*                                                                         *)
(* A call reads the document (getDoc), writes status and statusHistory     *)
(* back (updateDoc) and notifies the owner (createNotification); other     *)
(* calls run between these awaits.  The document id of the n-th complaint  *)
(* of the collection is n.                                                 *)
(***************************************************************************)

\* s.replace('_', ' '): the first underscore alone is replaced.
replaceUnderscore(s) ==
    LET at == {i \in 1..Len(s) : charAt(s, i) = "_"}
        first == CHOOSE i \in at : \A j \in at : i <= j
    IN  IF at = {} THEN s
        ELSE SubSeq(s, 1, first - 1) \o " " \o SubSeq(s, first + 1, Len(s))

\* for comparison: the history is started anew with the entry
statusUpdates_historyReplaced(data, newStatus, changedBy, changedByName, note, now, serverTime) ==
    [status |-> newStatus,
     statusHistory |-> <<[status |-> newStatus, changedAt |-> now,
                          changedBy |-> changedBy, changedByName |-> changedByName,
                          note |-> note]>>,
     updatedAt |-> serverTime]

\* The object `updates` that updateComplaintStatus builds from the data of
\* the snapshot it read; serverTimestamp() is resolved to serverTime.
statusUpdates(data, newStatus, changedBy, changedByName, note, now, serverTime) ==
    LET history == data.statusHistory
        newEntry == [status |-> newStatus, changedAt |-> now,
                     changedBy |-> changedBy, changedByName |-> changedByName,
                     note |-> note]
    IN  (IF note # Undefined /\ note # "" THEN [resolutionNote |-> note] ELSE <<>>)
        @@ (IF newStatus = "closed" THEN [closedAt |-> serverTime] ELSE <<>>)
        @@ (IF newStatus = "resolved" THEN [resolvedAt |-> serverTime] ELSE <<>>)
        @@ [status |-> newStatus,
            statusHistory |-> Append(history, newEntry),
            updatedAt |-> serverTime]

\* for comparison: the notification goes to the one who changed the status
statusNotification_toChanger(data, complaintId, newStatus, changedBy) ==
    [userId |-> changedBy,
     title |-> "Complaint Status Updated",
     message |-> "Your complaint \"" \o data.title
                 \o "\" status has been changed to "
                 \o replaceUnderscore(newStatus) \o ".",
     type |-> "status_update",
     complaintId |-> complaintId,
     isRead |-> FALSE]

\* The notification updateComplaintStatus creates.
statusNotification(data, complaintId, newStatus, changedBy) ==
    [userId |-> data.userId,
     title |-> "Complaint Status Updated",
     message |-> "Your complaint \"" \o data.title
                 \o "\" status has been changed to "
                 \o replaceUnderscore(newStatus) \o ".",
     type |-> "status_update",
     complaintId |-> complaintId,
     isRead |-> FALSE]

\* updateDoc(docRef, updates): the fields of updates replace or join those
\* of the document.
updateDoc(docs, id, updates) == [docs EXCEPT ![id] = updates @@ @]

\* -------------------------------------------------------------- the inputs

\* Calls of updateComplaintStatus one member of staff makes.
MaxCalls == 2

Staff == {"staff-1", "staff-2"}

\* The calls made: on the complaint submitted (id 1), without and with a
\* note, and on an id that no document has (id 2).
StatusCalls ==
    {[complaintId |-> 1, newStatus |-> "in_progress", note |-> Undefined],
     [complaintId |-> 1, newStatus |-> "resolved", note |-> "Pipe fixed"],
     [complaintId |-> 2, newStatus |-> "closed", note |-> "Duplicate"]}

NoCall == [complaintId |-> 0, newStatus |-> "", note |-> Undefined]

\* A member of staff before the first call.
Rested ==
    [stage |-> "idle", call |-> NoCall, data |-> <<>>, outcome |-> "none",
     calls |-> 0, returned |-> 0]

NotFound == "Complaint not found"

\* What updateDoc throws when a field of the data is undefined and the
\* Firestore instance does not ignore undefined properties.
InvalidData == "Unsupported field value: undefined"

InitStatus ==
    /\ updaters = [u \in Staff |-> Rested]
    /\ title = "No"
    /\ description = "water since 2 days!"
    /\ cPc = "ready"
    /\ cArg = "none"
    /\ cRet = "none"
    /\ complaintDocs = <<>>
    /\ notifications = <<>>
    /\ text = title \o " " \o description
    /\ pc = "ready"
    /\ arg = "none"
    /\ ret = "none"
    /\ SlaOff
    /\ PatternsOff
    /\ CallersOff
    /\ StoreOff
    /\ FormOff

notStatus ==
    <<classifierVars, slaVars, patternVars, callerVars, storeVars, formVars>>

\* The owner submits the complaint.
SubmitComplaint ==
    /\ CreateComplaintWith({l \in DepartmentLists : Len(l) = 1 /\ l[1].id = "dept-water"},
                           {""}, {""}, {<<>>}, {0})

\* updateComplaintStatus is called and its getDoc is answered: the call
\* throws when there is no such document and holds the data otherwise.
GetDoc(u) ==
    /\ updaters[u].stage = "idle"
    /\ updaters[u].calls < MaxCalls
    /\ \E call \in StatusCalls :
          LET exists == call.complaintId \in 1..Len(complaintDocs)
          IN  updaters' =
                  [updaters EXCEPT ![u] =
                      [stage |-> IF exists THEN "updateDoc" ELSE "idle",
                       call |-> call,
                       data |-> IF exists THEN complaintDocs[call.complaintId] ELSE <<>>,
                       outcome |-> IF exists THEN "none" ELSE NotFound,
                       calls |-> @.calls + 1,
                       returned |-> @.returned]]
    /\ UNCHANGED <<title, description, cPc, cArg, cRet, complaintDocs, notifications>>
    /\ UNCHANGED notStatus

\* updateDoc writes the updates built from the data read.
UpdateDoc(u) ==
    /\ updaters[u].stage = "updateDoc"
    /\ LET call == updaters[u].call
           updates == statusUpdates(updaters[u].data, call.newStatus, u,
                                    "Staff " \o u, call.note, clock, clock)
       IN  complaintDocs' = updateDoc(complaintDocs, call.complaintId, updates)
    /\ updaters' = [updaters EXCEPT ![u].stage = "createNotification"]
    /\ UNCHANGED <<title, description, cPc, cArg, cRet, notifications>>
    /\ UNCHANGED notStatus

\* updateDoc refuses the entry whose note is undefined, where the
\* Firestore instance is set up to refuse undefined values: the call throws.
UpdateDocRefused(u) ==
    /\ updaters[u].stage = "updateDoc"
    /\ updaters[u].call.note = Undefined
    /\ updaters' = [updaters EXCEPT ![u].stage = "idle", ![u].outcome = InvalidData]
    /\ UNCHANGED <<title, description, cPc, cArg, cRet, complaintDocs, notifications>>
    /\ UNCHANGED notStatus

\* createNotification adds the notification and the call returns.
CreateNotification(u) ==
    /\ updaters[u].stage = "createNotification"
    /\ LET call == updaters[u].call
       IN  notifications' =
               Append(notifications,
                      statusNotification(updaters[u].data, call.complaintId,
                                         call.newStatus, u))
    /\ updaters' = [updaters EXCEPT ![u].stage = "idle",
                                    ![u].outcome = "returned",
                                    ![u].returned = @ + 1]
    /\ UNCHANGED <<title, description, cPc, cArg, cRet, complaintDocs>>
    /\ UNCHANGED notStatus

NextStatus ==
    \/ SubmitComplaint
    \/ \E u \in Staff : GetDoc(u)
    \/ \E u \in Staff : UpdateDoc(u)
    \/ \E u \in Staff : UpdateDocRefused(u)
    \/ \E u \in Staff : CreateNotification(u)

SpecStatus == InitStatus /\ [][NextStatus]_vars

(***************************************************************************)
(* Claims on the changes of status.                                        *)
(***************************************************************************)

\* The calls of updateComplaintStatus that have returned, over a set of staff.
RECURSIVE ReturnedBy(_)
ReturnedBy(S) ==
    IF S = {} THEN 0
    ELSE LET u == CHOOSE x \in S : TRUE
         IN  updaters[u].returned + ReturnedBy(S \ {u})

\* No call of updateComplaintStatus is under way.
AllIdle == \A u \in Staff : updaters[u].stage = "idle"

\* The entries of a history that a member of staff wrote.
EntriesOf(history, u) == {i \in 1..Len(history) : history[i].changedBy = u}

\* C25: once all calls of updateComplaintStatus have completed, the
\* statusHistory of the complaint holds one entry for every call that
\* completed, besides the entry it had before, however the calls were
\* interleaved.
C25_NoStatusChangeLost ==
    (AllIdle /\ complaintDocs # <<>>) =>
        LET history == complaintDocs[1].statusHistory
        IN  /\ Len(history) = 1 + ReturnedBy(Staff)
            /\ \A u \in Staff :
                   Cardinality(EntriesOf(history, u)) = updaters[u].returned

\* The step is the write of a call that read the history as it still is.
SequentialWrite(u) ==
    /\ updaters[u].stage = "updateDoc"
    /\ updaters'[u].stage = "createNotification"
    /\ updaters[u].data.statusHistory
           = complaintDocs[updaters[u].call.complaintId].statusHistory

HistoryShape ==
    \A id \in 1..Len(complaintDocs) :
        LET history == complaintDocs[id].statusHistory
        IN  /\ history # <<>>
            /\ history[1].status = "pending"
            /\ history[Len(history)].status = complaintDocs[id].status

\* C26: from createComplaint on and through the changes of status, the
\* statusHistory of a complaint is never empty, its first entry has status
\* "pending" and its last entry has the status of the complaint; the write
\* of a call that no other write has overtaken since it read the document
\* puts one entry behind the history and leaves the entries before it as
\* they were.
C26_HistoryGrows ==
    /\ []HistoryShape
    /\ [][\A u \in Staff :
             SequentialWrite(u) =>
                 LET id == updaters[u].call.complaintId
                     before == complaintDocs[id].statusHistory
                     after == complaintDocs'[id].statusHistory
                 IN  /\ Len(after) = Len(before) + 1
                     /\ SubSeq(after, 1, Len(before)) = before
                     /\ after[Len(after)].status = updaters[u].call.newStatus
                     /\ after[Len(after)].changedBy = u]_vars

\* The complaint went from pending to in progress to resolved by two calls,
\* one after the other, of different members of staff.
C26_Witness ==
    /\ AllIdle
    /\ complaintDocs # <<>>
    /\ Len(complaintDocs[1].statusHistory) = 3
    /\ complaintDocs[1].statusHistory[1].status = "pending"
    /\ complaintDocs[1].statusHistory[2].status = "in_progress"
    /\ complaintDocs[1].statusHistory[2].changedBy = "staff-1"
    /\ complaintDocs[1].statusHistory[3].status = "resolved"
    /\ complaintDocs[1].statusHistory[3].changedBy = "staff-2"
    /\ complaintDocs[1].status = "resolved"
    /\ ReturnedBy(Staff) = 2

StatusNotifications ==
    SelectSeq(notifications, LAMBDA n : n.title = "Complaint Status Updated")

\* C27: a call of updateComplaintStatus with an id that no document has
\* throws "Complaint not found" and leaves the complaints and the
\* notifications as they are; a call with the id of a document does not
\* throw that error.  The notifications of changes of status are as many
\* as the calls that returned, each unread and addressed to the owner of
\* the complaint; the step that adds one is the last of its call, after
\* the write of the status, and returns the call.
C27_NotFoundOrNotified ==
    /\ [](/\ Len(StatusNotifications) = ReturnedBy(Staff)
          /\ \A k \in 1..Len(StatusNotifications) :
                LET n == StatusNotifications[k]
                IN  /\ n.complaintId \in 1..Len(complaintDocs)
                    /\ n.userId = complaintDocs[n.complaintId].userId
                    /\ n.isRead = FALSE)
    /\ [][\A u \in Staff :
             /\ (updaters[u].stage = "idle" /\ updaters'[u] # updaters[u]) =>
                    IF updaters'[u].call.complaintId \in 1..Len(complaintDocs)
                    THEN /\ updaters'[u].outcome # NotFound
                         /\ updaters'[u].stage = "updateDoc"
                    ELSE /\ updaters'[u].outcome = NotFound
                         /\ updaters'[u].stage = "idle"
                         /\ UNCHANGED <<complaintDocs, notifications>>
             /\ (updaters'[u].returned # updaters[u].returned) =>
                    /\ updaters[u].stage = "createNotification"
                    /\ updaters'[u].outcome = "returned"
                    /\ Len(notifications') = Len(notifications) + 1
                    /\ UNCHANGED complaintDocs
             /\ (updaters'[u].stage = "createNotification"
                 /\ updaters[u].stage # "createNotification") =>
                    /\ complaintDocs'[updaters[u].call.complaintId].status
                           = updaters[u].call.newStatus
                    /\ UNCHANGED notifications]_vars

\* One call threw "Complaint not found" and one returned: there are the
\* notification of the registration and one of a change of status.
C27_Witness ==
    /\ AllIdle
    /\ updaters["staff-1"].outcome = NotFound
    /\ updaters["staff-1"].call.complaintId = 2
    /\ complaintDocs # <<>>
    /\ updaters["staff-2"].outcome = "returned"
    /\ Len(StatusNotifications) = 1
    /\ Len(notifications) = 2
    /\ notifications[2].userId = "user-1"


(***************************************************************************)
(* The complaints store of the client (stores/complaints.store.ts).        *)
(*                                                                         *)
(* A complaint is held by its id and status here; the actions that set     *)
(* isLoading, filters and totalCount alone are left out.                   *)
(***************************************************************************)

\* complaints.map(c => c.id === id ? {...c, ...updates} : c)
mapUpdates(list, id, updates) ==
    [i \in 1..Len(list) |-> IF list[i].id = id THEN updates @@ list[i] ELSE list[i]]

\* complaints.filter(c => c.id !== id)
filterOut(list, id) == SelectSeq(list, LAMBDA c : c.id # id)

\* -------------------------------------------------------------- the inputs

\* The most complaints the store holds, and the furthest totalCount goes
\* above and below zero.
MaxStored == 2

StoredIds == {"c1", "c2", "c3"}

StoredComplaints == {[id |-> i, status |-> "pending"] : i \in StoredIds}

\* What updateComplaint is given to merge.
ComplaintUpdates == {[status |-> "resolved"], [status |-> "closed", id |-> "c3"]}

RECURSIVE StoredListsOf(_)
StoredListsOf(n) ==
    IF n = 0 THEN {<<>>}
    ELSE LET shorter == StoredListsOf(n - 1)
         IN  shorter \cup {Append(l, c) : l \in shorter, c \in StoredComplaints}

\* selectedComplaint: null, as a complaint without id.
NoComplaint == [id |-> "", status |-> ""]

\* The store as create() leaves it.
InitStore ==
    /\ store = [complaints |-> <<>>, selectedComplaint |-> NoComplaint,
                totalCount |-> 0]
    /\ ClassifierOff
    /\ SlaOff
    /\ ComplaintOff
    /\ PatternsOff
    /\ CallersOff
    /\ StatusOff
    /\ FormOff

notStore ==
    <<classifierVars, slaVars, complaintVars, patternVars, callerVars, statusVars,
      formVars>>

setComplaints ==
    /\ \E list \in StoredListsOf(MaxStored) :
          store' = [store EXCEPT !.complaints = list, !.totalCount = Len(list)]
    /\ UNCHANGED notStore

addComplaint ==
    /\ Len(store.complaints) < MaxStored
    /\ store.totalCount < MaxStored
    /\ \E complaint \in StoredComplaints :
          store' = [store EXCEPT !.complaints = <<complaint>> \o @,
                                 !.totalCount = @ + 1]
    /\ UNCHANGED notStore

updateComplaint ==
    /\ \E id \in StoredIds, updates \in ComplaintUpdates :
          store' = [store EXCEPT
                       !.complaints = mapUpdates(@, id, updates),
                       !.selectedComplaint =
                           IF @ # NoComplaint /\ @.id = id THEN updates @@ @ ELSE @]
    /\ UNCHANGED notStore

removeComplaint ==
    /\ store.totalCount > -MaxStored
    /\ \E id \in StoredIds :
          store' = [store EXCEPT !.complaints = filterOut(@, id),
                                 !.totalCount = @ - 1]
    /\ UNCHANGED notStore

setSelectedComplaint ==
    /\ \E selected \in {NoComplaint} \cup Range(store.complaints) :
          store' = [store EXCEPT !.selectedComplaint = selected]
    /\ UNCHANGED notStore

NextStore ==
    \/ setComplaints
    \/ addComplaint
    \/ updateComplaint
    \/ removeComplaint
    \/ setSelectedComplaint

SpecStore == InitStore /\ [][NextStore]_vars

\* C28: after any sequence of setComplaints, addComplaint, updateComplaint
\* and removeComplaint, with ids in the list or not, totalCount is the
\* number of complaints in the list and is not negative.
C28_TotalCountIsLength ==
    /\ store.totalCount = Len(store.complaints)
    /\ store.totalCount >= 0


(***************************************************************************)
(* The live classification in the form (UserDashboard.tsx:                 *)
(* SubmitComplaint).                                                       *)
(*                                                                         *)
(* The effect that depends on title, description and departments runs      *)
(* after every render in which one of them is a new value; the cleanup     *)
(* the last run returned, if it returned one, runs before it.  A run that  *)
(* returns early returns no cleanup.  aiResult and the timer are held as   *)
(* sequences of at most one element: <<>> is null, or no timer pending.    *)
(***************************************************************************)

\* The cleanup of the last run of the effect: clearTimeout(timer).  Where
\* the last run returned early, or its timer has fired, no timer is pending.
clearTimeout(timer) == <<>>

\* A render with the values t, d and departments, one of them new: the
\* cleanup of the last run, then the effect.
runEffect(state, t, d, departments) ==
    IF (t = "" /\ d = "") \/ (Len(t) < 5 /\ Len(d) < 10)
    THEN [state EXCEPT !.departments = departments,
                       !.timer = clearTimeout(@)]
    ELSE [state EXCEPT !.departments = departments,
                       !.aiLoading = TRUE,
                       !.timer = <<[title |-> t, description |-> d,
                                    departments |-> departments]>>]

\* -------------------------------------------------------------- the inputs

\* Titles of no, four and eight characters.
FormTitles == {"", "Leak", "No water"}

\* Descriptions of no, nine and nineteen characters.
FormDescriptions == {"", "tap drips", "water since 2 days!"}

\* The lists the subscription to the departments delivers.
FormDepartmentLists ==
    {l \in DepartmentLists :
        \/ l = <<>>
        \/ Len(l) = 1 /\ l[1].id = "dept-estate"
        \/ Len(l) = 2 /\ l[1].id = "dept-estate" /\ l[2].id = "dept-water"}

\* classifyComplaint on every text of the form and every list.
classifyFormOf ==
    [t \in FormTitles |-> [d \in FormDescriptions |->
        [l \in FormDepartmentLists |-> classifyComplaint(t, d, l)]]]

\* The component when it is mounted.
InitForm ==
    /\ form = [departments |-> <<>>, aiResult |-> <<>>, aiLoading |-> FALSE,
               timer |-> <<>>]
    /\ ComplaintOff
    /\ ClassifierOff
    /\ SlaOff
    /\ PatternsOff
    /\ CallersOff
    /\ StatusOff
    /\ StoreOff

notForm ==
    <<classifierVars, slaVars, patternVars, callerVars, statusVars, storeVars>>

\* The user changes the title or the description.
Edit ==
    /\ \E t \in FormTitles, d \in FormDescriptions :
          /\ <<t, d>> # <<title, description>>
          /\ title' = t
          /\ description' = d
          /\ form' = runEffect(form, t, d, form.departments)
    /\ UNCHANGED <<cPc, cArg, cRet, complaintDocs, notifications>>
    /\ UNCHANGED notForm

\* The subscription delivers a list of departments, a new array every time.
SetDepartments ==
    /\ \E departments \in FormDepartmentLists :
          form' = runEffect(form, title, description, departments)
    /\ UNCHANGED complaintVars
    /\ UNCHANGED notForm

\* The timer fires after 600 ms: the text and the list its closure holds
\* are classified.
TimerFires ==
    /\ form.timer # <<>>
    /\ LET held == form.timer[1]
       IN  form' = [form EXCEPT
                       !.aiResult =
                           <<classifyFormOf[held.title][held.description][held.departments]>>,
                       !.aiLoading = FALSE,
                       !.timer = <<>>]
    /\ UNCHANGED complaintVars
    /\ UNCHANGED notForm

NextForm ==
    \/ Edit
    \/ SetDepartments
    \/ TimerFires

\* A timer that is pending fires unless it is cleared.
SpecForm == InitForm /\ [][NextForm]_vars /\ WF_vars(TimerFires)

\* C30: when no timer is pending, which is where every run of the form
\* arrives once the editing has stopped, aiLoading is false and the
\* suggestion, if there is one, is the classification of the title, the
\* description and the departments as they are now; so also after an edit
\* that made the text shorter than the thresholds while a timer was pending.
C30_SettledOnLatest ==
    (form.timer = <<>>) =>
        /\ ~form.aiLoading
        /\ (form.aiResult # <<>>) =>
               form.aiResult[1] = classifyFormOf[title][description][form.departments]

====
